---- MODULE Spec2Model ----
(***************************************************************************)
(* llmbot: the per-channel conversation context of LLMBot                  *)
(* (llmbot/discord_bot.py), its message gating, model override and replies,*)
(* and the tool-calling loop chat_with_tools (llmbot/tools.py).            *)
(*                                                                         *)
(* The handler's actions are shared by several specifications that differ  *)
(* in the inputs they draw: Spec (query lengths that fill the context),    *)
(* SpecOverride (queries with model markers), SpecReply (long answers) and *)
(* SpecFail (replies that raise), SpecError (exceptions with long texts),  *)
(* SpecStartup (the model verification before the bot connects) and        *)
(* SpecLive (a backend call that may never return). Single functions are   *)
(* checked on their own: SpecChat, SpecQuery, SpecParse, SpecGate,         *)
(* SpecTrim, and SpecTool for the tool functions. SpecMcp is the           *)
(* LlmbotMCPClient (llmbot/mcp_client.py) under connect and disconnect.    *)
(*                                                                         *)
(* Texts are modelled by what the code reads of them: a text is a record   *)
(* [fmt, q, len] where fmt names the literal format it was built with, q   *)
(* the query whose text it carries and len its number of characters.       *)
(* Message handlers are asyncio tasks: a task runs alone from one await to *)
(* the next, so one action is the code between two awaits; `running` is    *)
(* the task that holds the event loop inside a stretch that the model      *)
(* splits in two.                                                          *)
(***************************************************************************)
EXTENDS Integers, Sequences, FiniteSets, TLC

\* ------------------------------------------------------------------ bounds
\* Number of inbound messages that trigger a query.
MaxQueries == 2
\* LLMBot.context_length, scaled down so that four-character tokens fill it.
context_length == 10
\* len(self.system_message) in characters.
SystemLen == 8
\* len(message.author.display_name) in characters.
UserNameLen == 2
\* Most tool-call requests one completion carries (tool-loop specification).
MaxToolCalls == 2
\* len(str(e)) of the exception the except branch reports.
ExceptionLen == 20

\* ------------------------------------------------------- program constants
\* context_trim_threshold = 0.8, as a percentage.
ThresholdPct == 80
\* len("I said: ")
ISaidLen == 8
\* len(": ") between the user name and the content
SepLen == 2
\* len("Assistant: ")
AssistantLen == 11
\* characters per estimated token
CharsPerToken == 4
\* len("No response received")
NoResponseLen == 20
\* len("Assistant"), the user_name of the bot's own turns
AssistantNameLen == 9
\* len("No response received from the model.")
FallbackLen == 36
\* len("!model=")
MarkerLen == 7
\* discord_msg_limit, Discord's limit on the characters of one message
discord_msg_limit == 2000
\* len("Error processing your request: ")
ErrorPrefixLen == 31

Tasks == 1..MaxQueries
\* The channels the messages arrive in.
Channels == {1, 2}
\* Lengths of the cleaned query texts the users send.
QueryLens == {4, 28}
\* Lengths of the completion texts the backend answers with (0: empty).
RespLens == {0, 8}

VARIABLES
    conversation_history, \* LLMBot.conversation_history: channel id -> list
    enable_mcp_tools,     \* LLMBot.enable_mcp_tools
    pc,                   \* where each handle_llm_query task stands
    channel_id,           \* handle_llm_query's channel_id, per task
    messages,             \* handle_llm_query's messages list, per task
    response_text,        \* handle_llm_query's response_text, per task
    failed,               \* whether the task reached the except branch
    running,              \* the task holding the event loop (0: none)
    self_model,           \* LLMBot.model, the configured default model
    task_query,           \* handle_llm_query's query argument, per task
    model_to_use,         \* handle_llm_query's model_to_use, per task
    calls,                \* what the task's query called, in order
    replied,              \* the replies the task has sent, in order
    typing,               \* whether the task is inside channel.typing()
    started,              \* where start_discord_bot stands
    rejects,              \* the models whose context length the backend rejects
    chat_in,              \* tool-loop specification: the call's inputs
    chat_out,             \* tool-loop specification: the call's result
    parse_in,             \* parser specification: the query text
    parse_out,            \* parser specification: (model, cleaned_query)
    gate_in,              \* gating specification: the inbound message
    gate_out,             \* gating specification: the queries issued for it
    tool_in,              \* tool specification: the tool's name and arguments
    tool_out,             \* tool specification: what the call gave
    trim_in,              \* trim specification: the histories and the channel
    trim_out,             \* trim specification: the histories after trimming
    mcp_client,           \* the LlmbotMCPClient: tools, session, _mcp_context
    mcp_ops               \* the calls made on the LlmbotMCPClient, in order

botVars == <<conversation_history, enable_mcp_tools, pc, channel_id, messages,
             response_text, failed, running, self_model, task_query,
             model_to_use, calls, replied, typing, started, rejects>>
\* The variables of start_discord_bot and of the backend it verifies.
startVars == <<started, rejects>>
\* The variables of the specifications of single functions.
pureVars == <<chat_in, chat_out, parse_in, parse_out, gate_in, gate_out,
              tool_in, tool_out, trim_in, trim_out, mcp_client, mcp_ops>>
\* The variables of the trim specification and of the LlmbotMCPClient.
trimVars == <<trim_in, trim_out>>
mcpVars == <<mcp_client, mcp_ops>>
vars == <<conversation_history, enable_mcp_tools, pc, channel_id, messages,
          response_text, failed, running, self_model, task_query,
          model_to_use, calls, replied, typing, started, rejects, chat_in,
          chat_out, parse_in, parse_out, gate_in, gate_out, tool_in,
          tool_out, trim_in, trim_out, mcp_client, mcp_ops>>

\* ------------------------------------------------------------------- texts
Text(fmt, q, len) == [fmt |-> fmt, q |-> q, len |-> len]
NoText == Text("", 0, 0)
system_message == Text("system_message", 0, SystemLen)
NoResponseReceived == Text("No response received", 0, NoResponseLen)

\* bool(text) of a str
Truthy(text) == text.len > 0

_estimate_tokens(text) == text.len \div CharsPerToken

_format_message_with_timestamp(user_name_len, content, is_bot) ==
    IF is_bot
    THEN Text("I said: {content}", content.q, ISaidLen + content.len)
    ELSE Text("{user_name}: {content}", content.q,
              user_name_len + SepLen + content.len)

RECURSIVE SeqsUpTo(_, _)
\* The sequences over S of length at most n.
SeqsUpTo(S, n) ==
    IF n = 0 THEN {<<>>}
    ELSE LET shorter == SeqsUpTo(S, n - 1)
         IN  shorter \cup {Append(q, x) : q \in shorter, x \in S}

\* ------------------------------------------------ _parse_model_from_query
\* A query text is a sequence of symbols: "M" is the literal "!model=",
\* " " a whitespace character, any other symbol one non-whitespace
\* character. "!model=" holds no whitespace and cannot overlap itself, so
\* the pattern !model=(\S+) reads it as one non-whitespace unit.
Symbols == {"M", "a", "b", " "}
\* Longest query text of the parser specification, in symbols.
MaxQueryLen == 6

IsSpace(ch) == ch = " "

\* The end of the longest run of non-whitespace symbols starting at i
\* (i - 1 when q[i] is whitespace or past the end): the greedy \S+.
RECURSIVE RunEnd(_, _)
RunEnd(q, i) ==
    IF i > Len(q) \/ IsSpace(q[i]) THEN i - 1 ELSE RunEnd(q, i + 1)

\* The pattern !model=(\S+) matches at position i.
MatchesAt(q, i) ==
    /\ i + 1 <= Len(q)
    /\ q[i] = "M"
    /\ ~IsSpace(q[i + 1])

\* re.search(model_pattern, query): the leftmost match as [start, end,
\* group1], start = 0 when there is none.
re_search(q) ==
    IF \E i \in 1..Len(q) : MatchesAt(q, i)
    THEN LET i == CHOOSE k \in 1..Len(q) :
                      /\ MatchesAt(q, k)
                      /\ \A l \in 1..(k - 1) : ~MatchesAt(q, l)
         IN  [start |-> i, end |-> RunEnd(q, i + 1),
              group1 |-> SubSeq(q, i + 1, RunEnd(q, i + 1))]
    ELSE [start |-> 0, end |-> 0, group1 |-> <<>>]

\* re.sub(model_pattern, "", query): every non-overlapping match, found
\* from the left, is replaced by "" (scanning from position i).
RECURSIVE re_sub(_, _)
re_sub(q, i) ==
    IF i > Len(q) THEN <<>>
    ELSE IF MatchesAt(q, i) THEN re_sub(q, RunEnd(q, i + 1) + 1)
    ELSE <<q[i]>> \o re_sub(q, i + 1)

\* str.strip(): without leading and trailing whitespace.
RECURSIVE lstrip(_)
lstrip(q) == IF q # <<>> /\ IsSpace(Head(q)) THEN lstrip(Tail(q)) ELSE q
RECURSIVE rstrip(_)
rstrip(q) ==
    IF q # <<>> /\ IsSpace(q[Len(q)])
    THEN rstrip(SubSeq(q, 1, Len(q) - 1))
    ELSE q
strip(q) == rstrip(lstrip(q))

\* _parse_model_from_query without the .strip() of line 98.
_parse_model_from_query_NoStrip(default_model, query) ==
    LET match == re_search(query)
    IN  IF match.start # 0
        THEN [model |-> match.group1, cleaned_query |-> re_sub(query, 1)]
        ELSE [model |-> default_model, cleaned_query |-> query]

\* _parse_model_from_query with the pattern !model=(\S*): a "!model=" with
\* no token after it is a marker too, for the empty model.
_parse_model_from_query_EmptyToken(default_model, query) ==
    IF \E i \in 1..Len(query) : query[i] = "M"
    THEN LET i == CHOOSE k \in 1..Len(query) :
                      /\ query[k] = "M"
                      /\ \A l \in 1..(k - 1) : query[l] # "M"
             j == RunEnd(query, i + 1)
         IN  [model |-> SubSeq(query, i + 1, j),
              cleaned_query |-> strip(SubSeq(query, 1, i - 1)
                                      \o SubSeq(query, j + 1, Len(query)))]
    ELSE [model |-> default_model, cleaned_query |-> query]

\* _parse_model_from_query returning the (empty) group when nothing matched
\* instead of self.model.
_parse_model_from_query_NoDefault(default_model, query) ==
    LET match == re_search(query)
    IN  [model |-> match.group1,
         cleaned_query |-> IF match.start # 0 THEN strip(re_sub(query, 1))
                           ELSE query]

\* _parse_model_from_query(query) -> (model, cleaned_query)
_parse_model_from_query(default_model, query) ==
    LET match == re_search(query)
    IN  IF match.start # 0
        THEN [model |-> match.group1, cleaned_query |-> strip(re_sub(query, 1))]
        ELSE [model |-> default_model, cleaned_query |-> query]

\* ------------------------------------------------- conversation history
\* _add_to_history with one list shared by the channels: the entry is
\* appended to every channel's history.
_add_to_history_Shared(history, channel, user_name_len, content, is_bot) ==
    LET created == IF channel \in DOMAIN history
                   THEN history
                   ELSE history @@ (channel :> <<>>)
        formatted_message ==
            _format_message_with_timestamp(user_name_len, content, is_bot)
        message_dict == [role |-> IF is_bot THEN "assistant" ELSE "user",
                         content |-> formatted_message]
    IN  [c \in DOMAIN created |-> Append(created[c], message_dict)]

_add_to_history(history, channel, user_name_len, content, is_bot) ==
    LET created == IF channel \in DOMAIN history
                   THEN history
                   ELSE history @@ (channel :> <<>>)
        formatted_message ==
            _format_message_with_timestamp(user_name_len, content, is_bot)
        message_dict == [role |-> IF is_bot THEN "assistant" ELSE "user",
                         content |-> formatted_message]
    IN  [created EXCEPT ![channel] = Append(@, message_dict)]

RECURSIVE SumTokens(_)
SumTokens(history) ==
    IF history = <<>> THEN 0
    ELSE _estimate_tokens(Head(history).content) + SumTokens(Tail(history))

\* int(self.context_length * self.context_trim_threshold)
token_threshold == (context_length * ThresholdPct) \div 100

\* TrimLoop with the guard len(history) > 2: it stops one entry early.
RECURSIVE TrimLoop_KeepsTwo(_, _)
TrimLoop_KeepsTwo(history, total_tokens) ==
    IF total_tokens > token_threshold /\ Len(history) > 2
    THEN TrimLoop_KeepsTwo(Tail(history),
                           total_tokens
                               - _estimate_tokens(Head(history).content))
    ELSE history

\* TrimLoop with the guard len(history) > 0: the last entry is popped too
\* when it alone is over the threshold.
RECURSIVE TrimLoop_UntilFits(_, _)
TrimLoop_UntilFits(history, total_tokens) ==
    IF total_tokens > token_threshold /\ Len(history) > 0
    THEN TrimLoop_UntilFits(Tail(history),
                            total_tokens
                                - _estimate_tokens(Head(history).content))
    ELSE history


\* TrimLoop that removes one entry per call: the oldest entry goes when
\* the history is over the threshold, and the loop is not run again.
TrimLoop_OnePop(history, total_tokens) ==
    IF total_tokens > token_threshold /\ Len(history) > 1
    THEN Tail(history)
    ELSE history


\* The while loop of _trim_history_if_needed: history.pop(0) while over the
\* threshold and more than one entry is left.
RECURSIVE TrimLoop(_, _)
TrimLoop(history, total_tokens) ==
    IF total_tokens > token_threshold /\ Len(history) > 1
    THEN TrimLoop(Tail(history),
                  total_tokens - _estimate_tokens(Head(history).content))
    ELSE history

_trim_history_if_needed(history, channel) ==
    IF channel \notin DOMAIN history
    THEN history
    ELSE LET system_tokens == _estimate_tokens(system_message)
             history_tokens == SumTokens(history[channel])
         IN  [history EXCEPT
                ![channel] = TrimLoop(@, system_tokens + history_tokens)]

\* ---------------------------------------------------------- numeric tools
\* Python values as tool arguments and results. An int is [type, value], a
\* str [type, text] with text its characters, None [type], and a float
\* [type, units]: floats are modelled in fixed point, units counting steps
\* of 1/FloatScale, every operation rounded to the nearest such value.
FloatScale == 10
PyInt(n) == [type |-> "int", value |-> n]
PyFloat(x) == [type |-> "float", units |-> x]
PyStr(text) == [type |-> "str", text |-> text]
PyNone == [type |-> "NoneType"]

\* n / d rounded to the nearest integer (d # 0).
RoundDiv(n, d) ==
    IF d > 0 THEN (2 * n + d) \div (2 * d)
    ELSE (2 * (0 - n) - d) \div (2 * (0 - d))

DigitChars == <<"0", "1", "2", "3", "4", "5", "6", "7", "8", "9">>
IsDigit(ch) == \E i \in 1..10 : DigitChars[i] = ch
DigitValue(ch) == (CHOOSE i \in 1..10 : DigitChars[i] = ch) - 1

RECURSIVE Pow10(_)
Pow10(k) == IF k = 0 THEN 1 ELSE 10 * Pow10(k - 1)

\* The number a sequence of digits denotes (0 for none).
RECURSIVE DigitsValue(_)
DigitsValue(digits) ==
    IF digits = <<>> THEN 0
    ELSE 10 * DigitsValue(SubSeq(digits, 1, Len(digits) - 1))
         + DigitValue(digits[Len(digits)])

\* What a call raised: the exception's class and its message.
Raised(exc, msg) == [raised |-> TRUE, exc |-> exc, msg |-> msg]
Returned(value) == [raised |-> FALSE, value |-> value]

\* The float a well-formed body (digits with at most one point, at index
\* point or past the end) denotes, in units.
Magnitude(body, point) ==
    DigitsValue(SubSeq(body, 1, point - 1)) * FloatScale
    + RoundDiv(DigitsValue(SubSeq(body, point + 1, Len(body))) * FloatScale,
               Pow10(IF point > Len(body) THEN 0 ELSE Len(body) - point))

\* The part of a number's text after its sign: digits with at most one
\* point and at least one digit.
WellFormed(body) ==
    /\ \A i \in 1..Len(body) : IsDigit(body[i]) \/ body[i] = "."
    /\ Cardinality({i \in 1..Len(body) : body[i] = "."}) <= 1
    /\ \E i \in 1..Len(body) : IsDigit(body[i])

\* The index of the point in a body, one past its end when it has none.
PointOf(body) ==
    IF \E i \in 1..Len(body) : body[i] = "."
    THEN CHOOSE i \in 1..Len(body) : body[i] = "."
    ELSE Len(body) + 1

\* float() of a text without surrounding whitespace, text being the
\* argument as it was given.
FloatOfStripped(text, stripped) ==
    IF stripped # <<>> /\ Head(stripped) \in {"-", "+"}
    THEN IF WellFormed(Tail(stripped))
         THEN Returned(PyFloat(
                  (IF Head(stripped) = "-" THEN -1 ELSE 1)
                  * Magnitude(Tail(stripped), PointOf(Tail(stripped)))))
         ELSE Raised("ValueError",
                     [fmt |-> "could not convert string to float: {x}",
                      x |-> text])
    ELSE IF WellFormed(stripped)
         THEN Returned(PyFloat(Magnitude(stripped, PointOf(stripped))))
         ELSE Raised("ValueError",
                     [fmt |-> "could not convert string to float: {x}",
                      x |-> text])

\* float(text) of a str: whitespace around is ignored, then an optional
\* sign and digits with at most one point and at least one digit; anything
\* else is a ValueError. (Exponents, underscores, "inf" and "nan" are not
\* among the characters of the model.)
FloatOfStr(text) == FloatOfStripped(text, strip(text))

\* float(x): of an int or a float its value, of a str what it denotes, of
\* anything else a TypeError.
float(x) ==
    IF x.type = "int" THEN Returned(PyFloat(x.value * FloatScale))
    ELSE IF x.type = "float" THEN Returned(x)
    ELSE IF x.type = "str" THEN FloatOfStr(x.text)
    ELSE Raised("TypeError",
                [fmt |-> "float() argument must be a string or a real number",
                 x |-> x.type])

\* result.is_integer() and int(result) of a float
is_integer(result) == result.units % FloatScale = 0
int(result) == PyInt(result.units \div FloatScale)

\* The float operations, rounded to the representable values.
FloatAdd(x, y) == PyFloat(x.units + y.units)
FloatSub(x, y) == PyFloat(x.units - y.units)
FloatMul(x, y) == PyFloat(RoundDiv(x.units * y.units, FloatScale))
FloatDiv(x, y) == PyFloat(RoundDiv(x.units * FloatScale, y.units))

\* except (ValueError, TypeError) as e: raise ValueError(f"Invalid number
\* format: {e}")
InvalidNumberFormat(e) ==
    Raised("ValueError", [fmt |-> "Invalid number format: {e}", e |-> e.msg])

\* WholeOrFloat without lines 43-44: the float is returned as it is.
WholeOrFloat_AlwaysFloat(result) == Returned(result)


\* return int(result) if result.is_integer() else result
WholeOrFloat(result) ==
    IF is_integer(result) THEN Returned(int(result)) ELSE Returned(result)

\* ArithmeticOf without the except clause of lines 45-47: what float()
\* raised leaves the function.
ArithmeticOf_NoExcept(op, num_a, num_b) ==
    IF num_a.raised THEN num_a
    ELSE IF num_b.raised THEN num_b
    ELSE CASE op = "+" -> WholeOrFloat(FloatAdd(num_a.value, num_b.value))
           [] op = "-" -> WholeOrFloat(FloatSub(num_a.value, num_b.value))
           [] op = "*" -> WholeOrFloat(FloatMul(num_a.value, num_b.value))


\* The try block of add_numbers, subtract_numbers and multiply_numbers once
\* float(a) and float(b) are evaluated, in that order.
ArithmeticOf(op, num_a, num_b) ==
    IF num_a.raised THEN InvalidNumberFormat(num_a)
    ELSE IF num_b.raised THEN InvalidNumberFormat(num_b)
    ELSE CASE op = "+" -> WholeOrFloat(FloatAdd(num_a.value, num_b.value))
           [] op = "-" -> WholeOrFloat(FloatSub(num_a.value, num_b.value))
           [] op = "*" -> WholeOrFloat(FloatMul(num_a.value, num_b.value))

add_numbers(a, b) == ArithmeticOf("+", float(a), float(b))
subtract_numbers(a, b) == ArithmeticOf("-", float(a), float(b))
multiply_numbers(a, b) == ArithmeticOf("*", float(a), float(b))

\* raise ValueError("Division by zero is not allowed") of line 124
DivisionByZero == Raised("ValueError", "Division by zero is not allowed")

\* The try block of divide_numbers once float(a) and float(b) are
\* evaluated: the ValueError of line 124 is raised inside the try and
\* caught by the except clause of line 131, which wraps it like the others.
DivisionOf(num_a, num_b) ==
    IF num_a.raised THEN InvalidNumberFormat(num_a)
    ELSE IF num_b.raised THEN InvalidNumberFormat(num_b)
    ELSE IF num_b.value.units = 0 THEN InvalidNumberFormat(DivisionByZero)
    ELSE WholeOrFloat(FloatDiv(num_a.value, num_b.value))

\* The try block without the test of lines 122-124: the division itself
\* raises ZeroDivisionError, which the except clause does not catch.
DivisionOf_NoZeroTest(num_a, num_b) ==
    IF num_a.raised THEN InvalidNumberFormat(num_a)
    ELSE IF num_b.raised THEN InvalidNumberFormat(num_b)
    ELSE IF num_b.value.units = 0
    THEN Raised("ZeroDivisionError", "float division by zero")
    ELSE WholeOrFloat(FloatDiv(num_a.value, num_b.value))

\* divide_numbers without the test of lines 122-124.
divide_numbers_NoZeroTest(a, b) == DivisionOf_NoZeroTest(float(a), float(b))

divide_numbers(a, b) == DivisionOf(float(a), float(b))

\* len(str(n)) of an int
RECURSIVE IntLen(_)
IntLen(n) ==
    IF n < 0 THEN 1 + IntLen(0 - n)
    ELSE IF n < 10 THEN 1
    ELSE 1 + IntLen(n \div 10)

\* ----------------------------------------------------------- count_letters
\* The characters of the texts count_letters is called with: a letter in
\* lower and upper case ("r", "R"), the Greek sigma in its three forms
\* (capital, small, small final), and a space.
LetterChars == {"r", "R", "SIGMA", "sigma", "final_sigma", " "}
\* The character is a cased letter.
IsCased(ch) == ch # " "

\* len("Error: Please provide exactly one letter to count")
CountErrorLen == 49
\* len("The letter '' appears  times in ''"), the fixed characters of the
\* result text
CountResultLen == 34

\* str.lower() at position i of a text: the lower-case form of the
\* character, which for the capital sigma is the final form when a cased
\* letter precedes it and none follows, and the small sigma otherwise.
LowerAt(text, i) ==
    IF text[i] = "R" THEN "r"
    ELSE IF text[i] = "SIGMA"
    THEN IF /\ i > 1
            /\ IsCased(text[i - 1])
            /\ (i = Len(text) \/ ~IsCased(text[i + 1]))
         THEN "final_sigma"
         ELSE "sigma"
    ELSE text[i]

\* str.lower()
lower(text) == [i \in 1..Len(text) |-> LowerAt(text, i)]

\* text.count(sub) from position i on: the non-overlapping occurrences of
\* the non-empty sub, found from the left.
RECURSIVE CountFrom(_, _, _)
CountFrom(text, sub, i) ==
    IF i + Len(sub) - 1 > Len(text) THEN 0
    ELSE IF SubSeq(text, i, i + Len(sub) - 1) = sub
    THEN 1 + CountFrom(text, sub, i + Len(sub))
    ELSE CountFrom(text, sub, i + 1)

\* count_letters(text, letter) of two strs: the returned str, by its
\* format and what it embeds.
count_letters(text, letter) ==
    IF Len(letter) # 1
    THEN Returned([type |-> "str",
                   fmt |-> "Error: Please provide exactly one letter to count",
                   len |-> CountErrorLen])
    ELSE Returned(
             [type |-> "str",
              fmt |-> "The letter '{letter}' appears {count} times in '{text}'",
              letter |-> letter,
              count |-> CountFrom(lower(text), lower(letter), 1),
              text |-> text,
              len |-> CountResultLen + Len(letter) + Len(text)
                      + IntLen(CountFrom(lower(text), lower(letter), 1))])


\* --------------------------------------------------------------- get_metar
\* faa_code_length = 3
faa_code_length == 3

\* str.upper() of the characters of the airport codes of the model.
LowerLetters == <<"g", "t", "u", "k", "j", "f">>
UpperLetters == <<"G", "T", "U", "K", "J", "F">>
UpperOf(ch) ==
    IF \E i \in 1..Len(LowerLetters) : LowerLetters[i] = ch
    THEN UpperLetters[CHOOSE i \in 1..Len(LowerLetters) : LowerLetters[i] = ch]
    ELSE ch
upper(text) == [i \in 1..Len(text) |-> UpperOf(text[i])]

\* What one HTTP exchange of fetch_metar_data can give: requests.get or
\* raise_for_status raises a RequestException (no connection, timeout, HTTP
\* error status); response.json() raises, which is a RequestException or a
\* plain ValueError by the version of requests; or the payload is JSON: an
\* empty list, null, an object, an empty object, a number, a text, or a
\* list whose first element is a record, an empty record or a text.
FetchOutcomes ==
    {"request_exception", "invalid_json_request_exception",
     "invalid_json_value_error", "empty_list", "null", "object",
     "empty_object", "number", "text", "list_of_record",
     "list_of_empty_record", "list_of_text"}

\* fetch_metar_data(code) on an exchange: [raised: an exception leaves the
\* function, data: what it returns]. RequestException, KeyError and
\* IndexError are caught and give None; `data[0] if data else None` gives
\* None for a falsy payload, raises KeyError on an object, TypeError on a
\* number, and gives the first element or character of a list or text.
fetch_metar_data(outcome) ==
    CASE outcome \in {"request_exception", "invalid_json_request_exception"}
             -> [raised |-> FALSE, data |-> "None"]
      [] outcome = "invalid_json_value_error"
             -> [raised |-> TRUE, exc |-> "ValueError"]
      [] outcome \in {"empty_list", "null", "empty_object", "object"}
             -> [raised |-> FALSE, data |-> "None"]
      [] outcome = "number" -> [raised |-> TRUE, exc |-> "TypeError"]
      [] outcome \in {"text", "list_of_text"}
             -> [raised |-> FALSE, data |-> "text"]
      [] outcome = "list_of_record" -> [raised |-> FALSE, data |-> "record"]
      [] outcome = "list_of_empty_record"
             -> [raised |-> FALSE, data |-> "empty_record"]

\* bool(metar_data)
HasData(metar_data) == metar_data \in {"record", "text"}

\* What get_metar returns, with the codes it fetched, in order.
MetarResult(fmt, icao_code, fetched) ==
    [raised |-> FALSE,
     value |-> [type |-> "str", fmt |-> fmt, icao_code |-> icao_code],
     fetched |-> fetched]

\* Lines 182-203 and the except clause: the text for the data that was
\* found. A value that is no record has no .get and ends in the except
\* clause.
FormatMetar(metar_data, icao_code, fetched) ==
    IF ~HasData(metar_data)
    THEN MetarResult("No METAR data found for airport code: {icao_code}",
                     icao_code, fetched)
    ELSE IF metar_data = "record"
    THEN MetarResult("Airport: {airport_name}...", icao_code, fetched)
    ELSE MetarResult("Error fetching METAR data: {e}", icao_code, fetched)

\* Line 176 testing the data alone: any code is tried again with a K.
NeedsKPrefix_AnyLength(metar_data, code) == ~HasData(metar_data)

\* Line 176: not metar_data and len(code) == faa_code_length
NeedsKPrefix(metar_data, code) ==
    ~HasData(metar_data) /\ Len(code) = faa_code_length

\* Lines 172-203 once the first fetch is made: first and second are what
\* fetch_metar_data gives for the code and for the code with a K.
AfterFirstFetch(icao_code, code, first, second) ==
    IF first.raised
    THEN MetarResult("Error fetching METAR data: {e}", icao_code, <<code>>)
    ELSE IF NeedsKPrefix(first.data, code)
    THEN IF second.raised
         THEN MetarResult("Error fetching METAR data: {e}", icao_code,
                          <<code, <<"K">> \o code>>)
         ELSE FormatMetar(second.data, icao_code, <<code, <<"K">> \o code>>)
    ELSE FormatMetar(first.data, icao_code, <<code>>)

\* get_metar(icao_code) of a str, exchanges being the outcomes of the HTTP
\* exchanges it makes, in order.
get_metar(icao_code, exchanges) ==
    AfterFirstFetch(icao_code, strip(upper(icao_code)),
                    fetch_metar_data(exchanges[1]),
                    fetch_metar_data(exchanges[2]))


\* --------------------------------------------------------------- websearch
\* Most results the search endpoint returns in one reply.
MaxResults == 3

\* list[:limit] of Python: the first limit elements, and for a negative
\* limit all but the last -limit.
SliceTo(list, limit) ==
    IF limit >= 0
    THEN SubSeq(list, 1, IF limit < Len(list) THEN limit ELSE Len(list))
    ELSE SubSeq(list, 1, Len(list) + limit)

\* What the exchange with the search endpoint gives: requests.get or
\* raise_for_status raises a RequestException, or the reply is a JSON
\* object whose "results" are the given entries, each with title and url.
SearchFailed == [kind |-> "request_exception"]
SearchReply(results) == [kind |-> "json", results |-> results]

\* Lines 252-259: the entries that are formatted.
Formatted(results, limit) == SliceTo(results, limit)

\* Lines 261-271: the text for the formatted entries, by its format and
\* the entries it lists, in order.
SearchText(query, formatted_results) ==
    IF formatted_results = <<>>
    THEN Returned([type |-> "str",
                   fmt |-> "No search results found for query: {query}",
                   query |-> query, items |-> <<>>])
    ELSE Returned([type |-> "str",
                   fmt |-> "Search results for '{query}':...",
                   query |-> query, items |-> formatted_results])

\* websearch(query, limit) with limit an int, exchange being what the
\* request to the endpoint gives.
websearch(query, limit, exchange) ==
    IF exchange.kind = "request_exception"
    THEN Returned([type |-> "str",
                   fmt |-> "Error performing web search: {e!s}",
                   query |-> query, items |-> <<>>])
    ELSE SearchText(query, Formatted(exchange.results, limit))


\* ---------------------------------------------------------------- tools
\* The keys of TOOL_FUNCTIONS.
TOOL_FUNCTIONS ==
    {"add_numbers", "subtract_numbers", "multiply_numbers", "divide_numbers",
     "get_current_time", "get_metar", "count_letters", "websearch"}

\* The names of the declarations in TOOLS, in order.
TOOLS ==
    <<"add_numbers", "get_current_time", "get_metar", "subtract_numbers",
      "multiply_numbers", "divide_numbers", "count_letters", "websearch">>

\* A text a tool call produces: its format, the tool's name, its length.
ToolText(fmt, name, len) == [fmt |-> fmt, name |-> name, len |-> len]

\* Arguments of a tool request of which only this is known: the function
\* accepts them, or it does not (wrong keywords, bad values, not a mapping).
ValidArguments == [abstract |-> "valid"]
InvalidArguments == [abstract |-> "invalid"]

\* func(**arguments) with arguments given as a mapping of keywords to
\* Python values: keywords that are not the function's parameters are a
\* TypeError of the call.
Invoke(tool_name, arguments) ==
    LET TypeError == Raised("TypeError", "unexpected or missing keyword")
    IN  CASE tool_name = "add_numbers" ->
                 IF DOMAIN arguments # {"a", "b"} THEN TypeError
                 ELSE add_numbers(arguments.a, arguments.b)
          [] tool_name = "subtract_numbers" ->
                 IF DOMAIN arguments # {"a", "b"} THEN TypeError
                 ELSE subtract_numbers(arguments.a, arguments.b)
          [] tool_name = "multiply_numbers" ->
                 IF DOMAIN arguments # {"a", "b"} THEN TypeError
                 ELSE multiply_numbers(arguments.a, arguments.b)
          [] tool_name = "divide_numbers" ->
                 IF DOMAIN arguments # {"a", "b"} THEN TypeError
                 ELSE divide_numbers(arguments.a, arguments.b)
          [] tool_name = "count_letters" ->
                 IF DOMAIN arguments # {"text", "letter"} THEN TypeError
                 ELSE count_letters(arguments.text.text,
                                    arguments.letter.text)

\* len(str(result)) of what a tool function returned
str_len(result) ==
    IF "len" \in DOMAIN result THEN result.len
    ELSE IF result.type = "int" THEN IntLen(result.value)
    ELSE IF result.units < 0
    THEN 1 + IntLen((0 - result.units) \div FloatScale) + 2
    ELSE IntLen(result.units \div FloatScale) + 2

\* func(**arguments) in the tool loop, whose requests carry arguments
\* known only as accepted or not: the function returns or raises.
ToolFunction(tool_name, arguments) ==
    IF arguments = ValidArguments
    THEN [raised |-> FALSE, value |-> ToolText("result", tool_name, 1)]
    ELSE [raised |-> TRUE, value |-> ToolText("exception", tool_name, 1)]

\* The try block of call_tool, r being what func(**arguments) did:
\* return str(result), and "Error calling tool ..." for any exception.
TryCall(tool_name, r) ==
    IF r.raised
    THEN [result |-> ToolText("Error calling tool {tool_name}: {e}",
                              tool_name, 20),
          escaped |-> FALSE, invoked |-> TRUE]
    ELSE [result |-> ToolText("str(result)", tool_name, str_len(r.value)),
          escaped |-> FALSE, invoked |-> TRUE]

\* call_tool without the try/except around the call: what the tool raises
\* leaves call_tool.
call_tool_NoCatch(tool_name, arguments) ==
    IF tool_name \notin TOOL_FUNCTIONS
    THEN [result |-> ToolText("Unknown tool: {tool_name}", tool_name, 14),
          escaped |-> FALSE, invoked |-> FALSE]
    ELSE LET r == ToolFunction(tool_name, arguments)
         IN  IF r.raised
             THEN [result |-> r, escaped |-> TRUE, invoked |-> TRUE]
             ELSE [result |-> ToolText("str(result)", tool_name,
                                       str_len(r.value)),
                   escaped |-> FALSE, invoked |-> TRUE]

\* call_tool without the membership test: TOOL_FUNCTIONS[tool_name] is
\* looked up before the try and its KeyError leaves call_tool.
call_tool_NoMembershipTest(tool_name, arguments) ==
    IF tool_name \notin TOOL_FUNCTIONS
    THEN [result |-> ToolText("KeyError", tool_name, 1),
          escaped |-> TRUE, invoked |-> FALSE]
    ELSE LET r == ToolFunction(tool_name, arguments)
         IN  IF r.raised
             THEN [result |-> ToolText("Error calling tool {tool_name}: {e}",
                                       tool_name, 20),
                   escaped |-> FALSE, invoked |-> TRUE]
             ELSE [result |-> ToolText("str(result)", tool_name,
                                       str_len(r.value)),
                   escaped |-> FALSE, invoked |-> TRUE]

\* call_tool: [result: the returned string, escaped: an exception left the
\* function, invoked: the tool function was called].
call_tool(tool_name, arguments) ==
    IF tool_name \notin TOOL_FUNCTIONS
    THEN [result |-> ToolText("Unknown tool: {tool_name}", tool_name, 14),
          escaped |-> FALSE, invoked |-> FALSE]
    ELSE TryCall(tool_name, ToolFunction(tool_name, arguments))

\* ------------------------------------------------------ chat_with_tools
\* One ollama_client.chat call, as the backend sees it.
ChatCall(model, msgs, with_tools, options) ==
    [ev |-> "chat", model |-> model, messages |-> msgs,
     tools |-> with_tools, options |-> options]

\* One call of call_tool, as the tool registry sees it.
ToolCallEvent(tool_call, r) ==
    [ev |-> "call_tool", name |-> tool_call.function.name,
     arguments |-> tool_call.function.arguments,
     invoked |-> r.invoked, escaped |-> r.escaped, result |-> r.result]

\* result["message"]["content"] if result else "No response received"
ResponseText(result) ==
    IF result.kind = "none" THEN NoResponseReceived
    ELSE result.message.content

\* ExecuteToolCalls that never copies the request's id into the tool
\* message.
RECURSIVE ExecuteToolCalls_NoId(_, _, _)
ExecuteToolCalls_NoId(tool_calls, conversation, trace) ==
    IF tool_calls = <<>>
    THEN [raised |-> FALSE, conversation |-> conversation, trace |-> trace]
    ELSE LET tool_call == Head(tool_calls)
             r == call_tool(tool_call.function.name,
                            tool_call.function.arguments)
             tool_response == [role |-> "tool", content |-> r.result]
             traced == Append(trace, ToolCallEvent(tool_call, r))
         IN  IF r.escaped
             THEN [raised |-> TRUE, conversation |-> conversation,
                   trace |-> traced]
             ELSE ExecuteToolCalls_NoId(Tail(tool_calls),
                                        Append(conversation, tool_response),
                                        traced)

\* The for loop over response["message"]["tool_calls"]: one call_tool and
\* one appended role=tool message per request; an exception that leaves
\* call_tool leaves the loop.
RECURSIVE ExecuteToolCalls(_, _, _)
ExecuteToolCalls(tool_calls, conversation, trace) ==
    IF tool_calls = <<>>
    THEN [raised |-> FALSE, conversation |-> conversation, trace |-> trace]
    ELSE LET tool_call == Head(tool_calls)
             r == call_tool(tool_call.function.name,
                            tool_call.function.arguments)
             tool_response ==
                 IF "id" \in DOMAIN tool_call
                 THEN [role |-> "tool", content |-> r.result,
                       tool_call_id |-> tool_call.id]
                 ELSE [role |-> "tool", content |-> r.result]
             traced == Append(trace, ToolCallEvent(tool_call, r))
         IN  IF r.escaped
             THEN [raised |-> TRUE, conversation |-> conversation,
                   trace |-> traced]
             ELSE ExecuteToolCalls(Tail(tool_calls),
                                   Append(conversation, tool_response),
                                   traced)

\* What a call that raised leaves behind: no text; messages is the
\* caller's list as the call left it.
RaisedResult(msgs, trace) ==
    [raised |-> TRUE, messages |-> msgs, text |-> NoText,
     conversation |-> msgs, trace |-> trace]

\* ToolRound as a loop: tool calls of the follow-up completion are executed
\* too and the backend is asked once more.
ToolRound_Chained(msgs, response, ollama_client, model, ollama_options) ==
    LET call1 == ChatCall(model, msgs, TRUE, ollama_options)
        copied == Append(msgs, response.message)
        ran == ExecuteToolCalls(response.message.tool_calls, copied,
                                <<call1>>)
        call2 == ChatCall(model, ran.conversation, FALSE, ollama_options)
        final_response == ollama_client.second
        again == ExecuteToolCalls(final_response.message.tool_calls,
                                  Append(ran.conversation,
                                         final_response.message),
                                  Append(ran.trace, call2))
        call3 == ChatCall(model, again.conversation, FALSE, ollama_options)
    IN  IF ran.raised
        THEN RaisedResult(msgs, ran.trace)
        ELSE IF final_response.kind = "raise"
        THEN RaisedResult(msgs, Append(ran.trace, call2))
        ELSE IF final_response.kind = "msg"
                /\ final_response.message.tool_calls # <<>>
        THEN [raised |-> FALSE, messages |-> msgs,
              text |-> ResponseText(final_response),
              conversation |-> again.conversation,
              trace |-> Append(again.trace, call3)]
        ELSE [raised |-> FALSE, messages |-> msgs,
              text |-> ResponseText(final_response),
              conversation |-> ran.conversation,
              trace |-> Append(ran.trace, call2)]

\* ToolRound whose follow-up call leaves out what the caller passed: it
\* names the configured default model and carries no options.
ToolRound_BareFollowUp(msgs, response, ollama_client, model, ollama_options) ==
    LET call1 == ChatCall(model, msgs, TRUE, ollama_options)
        copied == Append(msgs, response.message)
        ran == ExecuteToolCalls(response.message.tool_calls, copied,
                                <<call1>>)
        call2 == ChatCall(<<"llama3.1:8b">>, ran.conversation, FALSE,
                          [none |-> TRUE])
        final_response == ollama_client.second
    IN  IF ran.raised
        THEN RaisedResult(msgs, ran.trace)
        ELSE IF final_response.kind = "raise"
        THEN RaisedResult(msgs, Append(ran.trace, call2))
        ELSE [raised |-> FALSE, messages |-> msgs,
              text |-> ResponseText(final_response),
              conversation |-> ran.conversation,
              trace |-> Append(ran.trace, call2)]


\* ToolRound without the copy of line 516: conversation is the caller's
\* list, which the tool interactions are appended to.
ToolRound_NoCopy(msgs, response, ollama_client, model, ollama_options) ==
    LET call1 == ChatCall(model, msgs, TRUE, ollama_options)
        copied == Append(msgs, response.message)
        ran == ExecuteToolCalls(response.message.tool_calls, copied,
                                <<call1>>)
        call2 == ChatCall(model, ran.conversation, FALSE, ollama_options)
        final_response == ollama_client.second
    IN  IF ran.raised
        THEN [raised |-> TRUE, messages |-> ran.conversation,
              text |-> NoText, conversation |-> ran.conversation,
              trace |-> ran.trace]
        ELSE IF final_response.kind = "raise"
        THEN [raised |-> TRUE, messages |-> ran.conversation,
              text |-> NoText, conversation |-> ran.conversation,
              trace |-> Append(ran.trace, call2)]
        ELSE [raised |-> FALSE, messages |-> ran.conversation,
              text |-> ResponseText(final_response),
              conversation |-> ran.conversation,
              trace |-> Append(ran.trace, call2)]

\* Lines 511-549, the branch taken when the first completion carries tool
\* calls: the working copy, the tool loop and the one follow-up call, whose
\* text is returned whatever else it carries.
ToolRound(msgs, response, ollama_client, model, ollama_options) ==
    LET call1 == ChatCall(model, msgs, TRUE, ollama_options)
        copied == Append(msgs, response.message)
        ran == ExecuteToolCalls(response.message.tool_calls, copied,
                                <<call1>>)
        call2 == ChatCall(model, ran.conversation, FALSE, ollama_options)
        final_response == ollama_client.second
    IN  IF ran.raised
        THEN RaisedResult(msgs, ran.trace)
        ELSE IF final_response.kind = "raise"
        THEN RaisedResult(msgs, Append(ran.trace, call2))
        ELSE [raised |-> FALSE, messages |-> msgs,
              text |-> ResponseText(final_response),
              conversation |-> ran.conversation,
              trace |-> Append(ran.trace, call2)]

\* chat_with_tools(messages, ollama_client, model, **ollama_options).
\* ollama_client is the backend's answers: .first to the first chat call,
\* .second to the second. An answer is [kind, message]: kind "raise" (the
\* call fails), "none" (a falsy result) or "msg".
\* The result is [raised, messages, text, conversation, trace]: messages
\* is the caller's list as the call left it, conversation the returned
\* list, trace the backend and tool calls made, in order.
chat_with_tools(msgs, ollama_client, model, ollama_options) ==
    LET response == ollama_client.first
    IN  IF TOOLS = <<>>
        THEN LET call == ChatCall(model, msgs, FALSE, ollama_options)
             IN  IF response.kind = "raise"
                 THEN RaisedResult(msgs, <<call>>)
                 ELSE [raised |-> FALSE, messages |-> msgs,
                       text |-> ResponseText(response),
                       conversation |-> msgs, trace |-> <<call>>]
        ELSE
        LET call1 == ChatCall(model, msgs, TRUE, ollama_options)
        IN  IF response.kind # "msg"
            THEN RaisedResult(msgs, <<call1>>)
            ELSE IF response.message.tool_calls # <<>>
            THEN ToolRound(msgs, response, ollama_client, model,
                           ollama_options)
            ELSE [raised |-> FALSE, messages |-> msgs,
                  text |-> ResponseText(response),
                  conversation |-> msgs, trace |-> <<call1>>]

\* ------------------------------------------------------ handle_llm_query
\* LLMBot.model, the configured default model. A model name is a sequence
\* of symbols; the default is one symbol no query text contains.
DefaultModel == <<"llama3.1:8b">>

\* options={"num_ctx": self.context_length}
Options == [num_ctx |-> context_length]

\* The backend's possible answers to a query's first and second chat call.
Answer(kind, q, len, tool_calls) ==
    [kind |-> kind,
     message |-> [role |-> "assistant", content |-> Text("completion", q, len),
                  tool_calls |-> tool_calls]]
FailedAnswer == Answer("raise", 0, 0, <<>>)
NoneAnswer == Answer("none", 0, 0, <<>>)
OneToolCall ==
    <<[id |-> "call_1",
       function |-> [name |-> "add_numbers", arguments |-> ValidArguments]]>>
FirstAnswers(t) ==
    {FailedAnswer}
    \cup {Answer("msg", t, n, tc) : n \in RespLens, tc \in {<<>>, OneToolCall}}
SecondAnswers(t) ==
    {FailedAnswer} \cup {Answer("msg", t, n, <<>>) : n \in RespLens}

\* "No response received from the model."
FallbackText ==
    Text("No response received from the model.", 0, FallbackLen)

\* A query text of n characters without whitespace or marker.
Word(n) == [i \in 1..n |-> "a"]

\* len() of a query text: "!model=" is seven characters, every other
\* symbol one.
RECURSIVE CharLen(_)
CharLen(q) ==
    IF q = <<>> THEN 0
    ELSE (IF Head(q) = "M" THEN MarkerLen ELSE 1) + CharLen(Tail(q))

\* Lines 221-240: the query is parsed, the user's turn appended and the
\* history trimmed, then the task awaits the typing indicator. Messages are
\* handled in the order they arrive: task t is the t-th message.
Start(t, c, q) ==
    /\ started = "connected"
    /\ running = 0
    /\ pc[t] = "idle"
    /\ \A u \in Tasks : u < t => pc[u] # "idle"
    /\ LET parsed == _parse_model_from_query(self_model, q)
           cleaned_query ==
               Text("cleaned_query", t, CharLen(parsed.cleaned_query))
       IN  /\ model_to_use' = [model_to_use EXCEPT ![t] = parsed.model]
           /\ conversation_history' =
                  _trim_history_if_needed(
                      _add_to_history(conversation_history, c, UserNameLen,
                                      cleaned_query, FALSE),
                      c)
    /\ task_query' = [task_query EXCEPT ![t] = q]
    /\ channel_id' = [channel_id EXCEPT ![t] = c]
    /\ pc' = [pc EXCEPT ![t] = "typing"]
    /\ UNCHANGED <<enable_mcp_tools, messages, response_text, failed, running,
                   self_model, calls, replied, typing, pureVars, startVars>>

\* BuildMessageList with messages aliasing the channel's list: the system
\* message is inserted into the history itself.
BuildMessageList_Aliased(history, channel) ==
    LET system == <<[role |-> "system", content |-> system_message]>>
    IN  IF channel \in DOMAIN history
        THEN [built |-> system \o history[channel],
              history |-> [history EXCEPT ![channel] = system \o @]]
        ELSE [built |-> system, history |-> history]

\* Lines 243-247: messages = [system] + the channel's history.
BuildMessageList(history, channel) ==
    LET system == <<[role |-> "system", content |-> system_message]>>
    IN  IF channel \in DOMAIN history
        THEN [built |-> system \o history[channel], history |-> history]
        ELSE [built |-> system, history |-> history]

\* The typing indicator is entered and the task resumes: lines 240-247.
BuildMessages(t) ==
    /\ running = 0
    /\ pc[t] = "typing"
    /\ LET b == BuildMessageList(conversation_history, channel_id[t])
       IN  /\ messages' = [messages EXCEPT ![t] = b.built]
           /\ conversation_history' = b.history
    /\ typing' = [typing EXCEPT ![t] = TRUE]
    /\ pc' = [pc EXCEPT ![t] = "chat"]
    /\ running' = t
    /\ UNCHANGED <<enable_mcp_tools, channel_id, response_text, failed,
                   self_model, task_query, model_to_use, calls, replied,
                   pureVars, startVars>>

\* msg.get("role") == "assistant" and "content" in msg and msg["content"]
IsAssistantWithContent(msg) ==
    /\ msg.role = "assistant"
    /\ "content" \in DOMAIN msg
    /\ Truthy(msg.content)

\* CommitToolsReply that commits the working copy: what chat_with_tools
\* appended to the list is appended to the history before the reply.
CommitToolsReply_WorkingCopy(history, channel, msgs, r) ==
    IF Len(r.conversation) > Len(msgs)
    THEN [history EXCEPT
            ![channel] =
                Append(@ \o SubSeq(r.conversation, Len(msgs) + 1,
                                   Len(r.conversation)),
                       [role |-> "assistant",
                        content |-> Text("Assistant: {response_text}",
                                         r.text.q,
                                         AssistantLen + r.text.len)])]
    ELSE _add_to_history(history, channel, AssistantNameLen, r.text, TRUE)


\* Lines 259-283: what the handler appends after chat_with_tools returned.
CommitToolsReply(history, channel, msgs, r) ==
    IF Len(r.conversation) > Len(msgs)
    THEN IF \E i \in 1..Len(r.conversation) :
                IsAssistantWithContent(r.conversation[i])
         THEN [history EXCEPT
                 ![channel] = Append(@,
                     [role |-> "assistant",
                      content |-> Text("Assistant: {response_text}", r.text.q,
                                       AssistantLen + r.text.len)])]
         ELSE history
    ELSE _add_to_history(history, channel, AssistantNameLen, r.text, TRUE)

\* QueryModel that takes the tool path whatever enable_mcp_tools says.
QueryModel_AlwaysTools(history, channel, msgs, tools_enabled, ollama_client, model_name) ==
    LET r == chat_with_tools(msgs, ollama_client, model_name, Options)
    IN  IF r.raised
        THEN [raised |-> TRUE, text |-> NoText, history |-> history,
              trace |-> r.trace]
        ELSE [raised |-> FALSE, text |-> r.text,
              history |-> CommitToolsReply(history, channel, msgs, r),
              trace |-> r.trace]

\* Lines 249-298 and the except branch: [raised, text, history, trace].
QueryModel(history, channel, msgs, tools_enabled, ollama_client, model_name) ==
    IF tools_enabled
    THEN LET r == chat_with_tools(msgs, ollama_client, model_name, Options)
         IN  IF r.raised
             THEN [raised |-> TRUE, text |-> NoText, history |-> history,
                   trace |-> r.trace]
             ELSE [raised |-> FALSE, text |-> r.text,
                   history |-> CommitToolsReply(history, channel, msgs, r),
                   trace |-> r.trace]
    ELSE LET result == ollama_client.first
             call == ChatCall(model_name, msgs, FALSE, Options)
         IN  IF result.kind = "raise"
             THEN [raised |-> TRUE, text |-> NoText, history |-> history,
                   trace |-> <<call>>]
             ELSE [raised |-> FALSE, text |-> ResponseText(result),
                   history |-> _add_to_history(history, channel, AssistantNameLen,
                                               ResponseText(result), TRUE),
                   trace |-> <<call>>]

\* What a query called, in order: of a backend call the model, the tool
\* declarations and the options, of a tool call the tool's name.
Called(trace) ==
    [i \in 1..Len(trace) |->
        IF trace[i].ev = "chat"
        THEN [ev |-> "chat", model |-> trace[i].model,
              tools |-> trace[i].tools, options |-> trace[i].options]
        ELSE [ev |-> "call_tool", name |-> trace[i].name]]

\* Orchestrate without lines 300-301: an empty text stays the reply.
Orchestrate_NoFallback(t, first, second) ==
    /\ running = t
    /\ pc[t] = "chat"
    /\ LET r == QueryModel(conversation_history, channel_id[t], messages[t],
                           enable_mcp_tools,
                           [first |-> first, second |-> second],
                           model_to_use[t])
       IN  /\ conversation_history' = r.history
           /\ failed' = [failed EXCEPT ![t] = r.raised]
           /\ calls' = [calls EXCEPT ![t] = Called(r.trace)]
           /\ response_text' =
                  [response_text EXCEPT
                     ![t] = IF r.raised THEN NoText ELSE r.text]
           /\ pc' = [pc EXCEPT ![t] = IF r.raised THEN "error" ELSE "reply"]
    /\ running' = 0
    /\ UNCHANGED <<enable_mcp_tools, channel_id, messages, self_model,
                   task_query, model_to_use, replied, typing, pureVars,
                   startVars>>

\* Lines 249-308 (or 323-329): the model is queried with the answers first
\* and second of the backend, the reply committed to the history, and the
\* task awaits message.reply.
Orchestrate(t, first, second) ==
    /\ running = t
    /\ pc[t] = "chat"
    /\ LET r == QueryModel(conversation_history, channel_id[t], messages[t],
                           enable_mcp_tools,
                           [first |-> first, second |-> second],
                           model_to_use[t])
       IN  /\ conversation_history' = r.history
           /\ failed' = [failed EXCEPT ![t] = r.raised]
           /\ calls' = [calls EXCEPT ![t] = Called(r.trace)]
           /\ response_text' =
                  [response_text EXCEPT
                     ![t] = IF r.raised THEN NoText
                            ELSE IF Truthy(r.text) THEN r.text
                            ELSE FallbackText]
           /\ pc' = [pc EXCEPT ![t] = IF r.raised THEN "error" ELSE "reply"]
    /\ running' = 0
    /\ UNCHANGED <<enable_mcp_tools, channel_id, messages, self_model,
                   task_query, model_to_use, replied, typing, pureVars,
                   startVars>>

Min(a, b) == IF a <= b THEN a ELSE b

\* text[i:j], a slice of a text by its offsets; Python clips both to the
\* text's length.
Slice(text, i, j) ==
    [text |-> text, from |-> Min(i, text.len), to |-> Min(j, text.len)]

\* Lines 314-317 with no bound on the slice: every chunk is the rest of
\* the text.
RECURSIVE ChunksFrom_Unbounded(_, _)
ChunksFrom_Unbounded(text, i) ==
    IF i >= text.len THEN <<>>
    ELSE <<Slice(text, i, text.len)>>
         \o ChunksFrom_Unbounded(text, i + discord_msg_limit)

\* Lines 314-317: [response_text[i : i + discord_msg_limit]
\*                 for i in range(0, len(response_text), discord_msg_limit)]
RECURSIVE ChunksFrom(_, _)
ChunksFrom(text, i) ==
    IF i >= text.len THEN <<>>
    ELSE <<Slice(text, i, i + discord_msg_limit)>>
         \o ChunksFrom(text, i + discord_msg_limit)

\* Lines 312-321: what the handler passes to message.reply, in order.
Replies(text) ==
    IF text.len > discord_msg_limit
    THEN ChunksFrom(text, 0)
    ELSE <<Slice(text, 0, text.len)>>

\* Line 324: f"Error processing your request: {e}", e_len being
\* len(str(e)) of the exception that was caught.
ErrorText(t, e_len) ==
    Text("Error processing your request: {e}", t, ErrorPrefixLen + e_len)

\* error_msg for an exception whose text has ExceptionLen characters.
error_msg(t) == ErrorText(t, ExceptionLen)

\* Return without leaving the typing block.
Return_KeepsTyping(t, how) ==
    /\ pc' = [pc EXCEPT ![t] = how]
    /\ messages' = [messages EXCEPT ![t] = <<>>]
    /\ response_text' = [response_text EXCEPT ![t] = NoText]
    /\ task_query' = [task_query EXCEPT ![t] = <<>>]
    /\ model_to_use' = [model_to_use EXCEPT ![t] = <<>>]
    /\ calls' = [calls EXCEPT ![t] = <<>>]
    /\ UNCHANGED typing

\* The handler returns or is left by an exception: the typing block is
\* left and its locals are gone.
Return(t, how) ==
    /\ pc' = [pc EXCEPT ![t] = how]
    /\ messages' = [messages EXCEPT ![t] = <<>>]
    /\ response_text' = [response_text EXCEPT ![t] = NoText]
    /\ task_query' = [task_query EXCEPT ![t] = <<>>]
    /\ model_to_use' = [model_to_use EXCEPT ![t] = <<>>]
    /\ calls' = [calls EXCEPT ![t] = <<>>]
    /\ typing' = [typing EXCEPT ![t] = FALSE]

\* Lines 310-321: one await message.reply(...) of the reply or of its next
\* chunk completes. When it was the last, the typing indicator is released
\* and the handler returns; when it raised (ok is false), the except branch
\* of line 323 is entered.
Reply(t, ok) ==
    /\ running = 0
    /\ pc[t] = "reply"
    /\ LET replies == Replies(response_text[t])
           k == Len(replied[t]) + 1
       IN  IF ~ok
           THEN /\ failed' = [failed EXCEPT ![t] = TRUE]
                /\ pc' = [pc EXCEPT ![t] = "error"]
                /\ UNCHANGED <<messages, response_text, task_query, model_to_use,
                               calls, replied, typing>>
           ELSE /\ replied' = [replied EXCEPT ![t] = Append(@, replies[k])]
                /\ UNCHANGED failed
                /\ IF k = Len(replies)
                   THEN Return(t, "done")
                   ELSE UNCHANGED <<pc, messages, response_text, task_query,
                                    model_to_use, calls, typing>>
    /\ UNCHANGED <<conversation_history, enable_mcp_tools, channel_id,
                   running, self_model, pureVars, startVars>>

\* Lines 323-330: await message.reply(error_msg) completes, the typing
\* indicator is released and the handler returns; when that reply raised
\* (ok is false) the exception leaves handle_llm_query.
ReplyErrorOf(t, ok, e_len) ==
    /\ running = 0
    /\ pc[t] = "error"
    /\ IF ok
       THEN /\ replied' = [replied EXCEPT
                          ![t] = Append(@, Slice(ErrorText(t, e_len), 0,
                                                 ErrorText(t, e_len).len))]
            /\ Return(t, "done")
       ELSE /\ UNCHANGED replied
            /\ Return(t, "escaped")
    /\ UNCHANGED <<conversation_history, enable_mcp_tools, channel_id, failed,
                   running, self_model, pureVars, startVars>>

\* Lines 323-330 for an exception whose text has ExceptionLen characters.
ReplyError(t, ok) == ReplyErrorOf(t, ok, ExceptionLen)

NoChat == [stage |-> "none"]
NoParse == [stage |-> "none"]
NoGate == [stage |-> "none"]
NoTool == [stage |-> "none"]
NoTrim == [stage |-> "none"]

\* LlmbotMCPClient.__init__: no tools, no session, no transport context.
LlmbotMCPClient ==
    [tools |-> <<>>, session |-> "None", _mcp_context |-> "None"]

\* _trim_history_if_needed has not been called on drawn histories.
Untrimmed == trim_in = NoTrim /\ trim_out = NoTrim

\* No call has been made on the LlmbotMCPClient.
Unconnected == mcp_client = LlmbotMCPClient /\ mcp_ops = <<>>

\* start_discord_bot is past bot.start and the backend accepts the
\* context length for every model.
Connected ==
    /\ started = "connected"
    /\ rejects = {}

InitBot ==
    /\ conversation_history = <<>>
    /\ pc = [t \in Tasks |-> "idle"]
    /\ channel_id = [t \in Tasks |-> 0]
    /\ messages = [t \in Tasks |-> <<>>]
    /\ response_text = [t \in Tasks |-> NoText]
    /\ failed = [t \in Tasks |-> FALSE]
    /\ running = 0
    /\ self_model = DefaultModel
    /\ task_query = [t \in Tasks |-> <<>>]
    /\ model_to_use = [t \in Tasks |-> <<>>]
    /\ calls = [t \in Tasks |-> <<>>]
    /\ replied = [t \in Tasks |-> <<>>]
    /\ typing = [t \in Tasks |-> FALSE]

Init ==
    /\ InitBot
    /\ Connected
    /\ enable_mcp_tools \in BOOLEAN
    /\ chat_in = NoChat
    /\ chat_out = NoChat
    /\ parse_in = <<>>
    /\ parse_out = NoParse
    /\ gate_in = NoGate
    /\ gate_out = NoGate
    /\ tool_in = NoTool
    /\ tool_out = NoTool
    /\ Untrimmed
    /\ Unconnected

\* Every reply is delivered; the queries carry no marker.
Next ==
    \/ \E t \in Tasks, c \in Channels, n \in QueryLens : Start(t, c, Word(n))
    \/ \E t \in Tasks : BuildMessages(t)
    \/ \E t \in Tasks :
          \E first \in FirstAnswers(t), second \in SecondAnswers(t) :
              Orchestrate(t, first, second)
    \/ \E t \in Tasks : Reply(t, TRUE)
    \/ \E t \in Tasks : ReplyError(t, TRUE)

Spec == Init /\ [][Next]_vars

\* ---------------------------------------------- model overrides at work
\* Queries as on_message hands them over (stripped, not empty): with a
\* marker in front, with one at the end, and without.
OverrideQueries ==
    {Word(4), <<"M", "b", " ">> \o Word(4), Word(4) \o <<" ", "M", "b", "a">>}
\* The backend answers with a text, with one tool request, or fails.
OverrideFirstAnswers(t) ==
    {FailedAnswer, Answer("msg", t, 8, <<>>), Answer("msg", t, 8, OneToolCall)}
OverrideSecondAnswers(t) == {Answer("msg", t, 8, <<>>)}

NextOverride ==
    \/ \E t \in Tasks, c \in Channels, q \in OverrideQueries : Start(t, c, q)
    \/ \E t \in Tasks : BuildMessages(t)
    \/ \E t \in Tasks :
          \E first \in OverrideFirstAnswers(t),
             second \in OverrideSecondAnswers(t) :
              Orchestrate(t, first, second)
    \/ \E t \in Tasks : Reply(t, TRUE)
    \/ \E t \in Tasks : ReplyError(t, TRUE)

SpecOverride == Init /\ [][NextOverride]_vars

\* ------------------------------------------------------------ long replies
\* Lengths of the completion texts around the message limit and twice it.
ReplyLens ==
    {0, 1, discord_msg_limit, discord_msg_limit + 1, 2 * discord_msg_limit,
     2 * discord_msg_limit + 1}
\* The backend answers with a text of such a length, or fails.
ReplyFirstAnswers(t) ==
    {FailedAnswer} \cup {Answer("msg", t, n, <<>>) : n \in ReplyLens}

\* Every reply is delivered; the queries are short and carry no marker,
\* the completions carry no tool calls.
NextReply ==
    \/ \E t \in Tasks, c \in Channels : Start(t, c, Word(4))
    \/ \E t \in Tasks : BuildMessages(t)
    \/ \E t \in Tasks :
          \E first \in ReplyFirstAnswers(t) :
              Orchestrate(t, first, FailedAnswer)
    \/ \E t \in Tasks : Reply(t, TRUE)
    \/ \E t \in Tasks : ReplyError(t, TRUE)

SpecReply == Init /\ [][NextReply]_vars

\* ------------------------------------------- specification of the trim
\* Most entries of a drawn history.
MaxHistory == 4

\* len(msg["content"]) of the drawn entries: of 1, 3 and 7 estimated
\* tokens, the threshold being token_threshold with the system message
\* counted in.
EntryLens == {4, 12, 28}

\* The entries of the drawn histories.
Entries ==
    [role : {"user", "assistant"},
     content : {Text("{user_name}: {content}", 0, n) : n \in EntryLens}]

\* conversation_history as drawn: channel 1 has a context of up to
\* MaxHistory entries, channel 2 has none.
Histories == {1 :> h : h \in SeqsUpTo(Entries, MaxHistory)}

InitTrim ==
    /\ InitBot
    /\ Connected
    /\ enable_mcp_tools = FALSE
    /\ chat_in = NoChat
    /\ chat_out = NoChat
    /\ parse_in = <<>>
    /\ parse_out = NoParse
    /\ gate_in = NoGate
    /\ gate_out = NoGate
    /\ tool_in = NoTool
    /\ tool_out = NoTool
    /\ trim_in \in [history : Histories, channel : Channels]
    /\ trim_out = NoTrim
    /\ Unconnected

\* _trim_history_if_needed runs on the drawn history and channel, and
\* then once more on what it left.
CallTrim ==
    /\ trim_out = NoTrim
    /\ trim_out' =
           [stage |-> "returned",
            once |-> _trim_history_if_needed(trim_in.history, trim_in.channel),
            twice |-> _trim_history_if_needed(
                          _trim_history_if_needed(trim_in.history,
                                                  trim_in.channel),
                          trim_in.channel)]
    /\ UNCHANGED <<botVars, chat_in, chat_out, parse_in, parse_out, gate_in,
                   gate_out, tool_in, tool_out, trim_in, mcpVars>>

NextTrim == CallTrim

SpecTrim == InitTrim /\ [][NextTrim]_vars


\* ------------------------------------ specification of LlmbotMCPClient
\* Most calls of connect and disconnect made on one client.
MaxOps == 4

\* The names of the tools the llmbot MCP server declares (llmbot/mcp.py,
\* handle_list_tools), in order.
ServerTools == <<"add_numbers">>

\* How far connect gets: stdio_client(...) raises before the assignment,
\* entering the transport raises, session.initialize() raises,
\* session.list_tools() raises, or the tools are loaded.
ConnectOutcomes ==
    {"stdio_client_raises", "aenter_raises", "initialize_raises",
     "list_tools_raises", "connected"}

\* The tool declaration connect builds for a tool of the server.
OllamaTool(name) == [type |-> "function", function |-> [name |-> name]]

\* LlmbotMCPClient.connect: the transport context and the session are
\* assigned as far as connect gets, and the server's tools are appended
\* to self.tools; every failure is raised as a RuntimeError.
connect(outcome) ==
    /\ Len(mcp_ops) < MaxOps
    /\ mcp_client' =
           CASE outcome = "stdio_client_raises" -> mcp_client
             [] outcome = "aenter_raises" ->
                    [mcp_client EXCEPT !._mcp_context = "stdio_client"]
             [] outcome \in {"initialize_raises", "list_tools_raises"} ->
                    [mcp_client EXCEPT !._mcp_context = "stdio_client",
                                       !.session = "ClientSession"]
             [] outcome = "connected" ->
                    [mcp_client EXCEPT
                        !._mcp_context = "stdio_client",
                        !.session = "ClientSession",
                        !.tools = @ \o [i \in 1..Len(ServerTools) |->
                                           OllamaTool(ServerTools[i])]]
    /\ mcp_ops' = Append(mcp_ops, [op |-> "connect",
                                   raised |-> outcome # "connected"])
    /\ UNCHANGED <<botVars, chat_in, chat_out, parse_in, parse_out, gate_in,
                   gate_out, tool_in, tool_out, trimVars>>

\* LlmbotMCPClient.disconnect: with a transport context, it is closed and,
\* whether closing raised or not, the context and the session are set to
\* None; without one nothing is done.
disconnect(close_raises) ==
    /\ Len(mcp_ops) < MaxOps
    /\ mcp_client' =
           IF mcp_client._mcp_context # "None"
           THEN [mcp_client EXCEPT !._mcp_context = "None",
                                   !.session = "None"]
           ELSE mcp_client
    /\ mcp_ops' = Append(mcp_ops,
                         [op |-> "disconnect",
                          raised |-> FALSE,
                          close_raised |->
                              mcp_client._mcp_context # "None"
                              /\ close_raises])
    /\ UNCHANGED <<botVars, chat_in, chat_out, parse_in, parse_out, gate_in,
                   gate_out, tool_in, tool_out, trimVars>>

InitMcp ==
    /\ InitBot
    /\ Connected
    /\ enable_mcp_tools = FALSE
    /\ chat_in = NoChat
    /\ chat_out = NoChat
    /\ parse_in = <<>>
    /\ parse_out = NoParse
    /\ gate_in = NoGate
    /\ gate_out = NoGate
    /\ tool_in = NoTool
    /\ tool_out = NoTool
    /\ Untrimmed
    /\ Unconnected

NextMcp ==
    \/ \E outcome \in ConnectOutcomes : connect(outcome)
    \/ \E close_raises \in BOOLEAN : disconnect(close_raises)

SpecMcp == InitMcp /\ [][NextMcp]_vars


\* ------------------------------------ specification of the error replies
\* len(str(e)) of the exceptions the except branch reports: an empty
\* text, a short one, and texts that bring error_msg to the limit and one
\* past it.
ExceptionLens ==
    {0, ExceptionLen, discord_msg_limit - ErrorPrefixLen,
     discord_msg_limit - ErrorPrefixLen + 1}

\* The backend answers with a text of any of ReplyLens or fails with an
\* exception whose text has any of ExceptionLens; every reply is delivered.
NextError ==
    \/ \E t \in Tasks, c \in Channels : Start(t, c, Word(4))
    \/ \E t \in Tasks : BuildMessages(t)
    \/ \E t \in Tasks :
          \E first \in ReplyFirstAnswers(t) :
              Orchestrate(t, first, FailedAnswer)
    \/ \E t \in Tasks : Reply(t, TRUE)
    \/ \E t \in Tasks, e_len \in ExceptionLens : ReplyErrorOf(t, TRUE, e_len)

SpecError == Init /\ [][NextError]_vars

\* ---------------------------------------------------------- failing replies
\* The backend answers with a text, with one tool request, or fails.
FailFirstAnswers(t) ==
    {FailedAnswer, Answer("msg", t, 8, <<>>), Answer("msg", t, 8, OneToolCall)}
FailSecondAnswers(t) == {FailedAnswer, Answer("msg", t, 8, <<>>)}

\* message.reply delivers or raises; the queries are short and carry no
\* marker.
NextFail ==
    \/ \E t \in Tasks, c \in Channels : Start(t, c, Word(4))
    \/ \E t \in Tasks : BuildMessages(t)
    \/ \E t \in Tasks :
          \E first \in FailFirstAnswers(t), second \in FailSecondAnswers(t) :
              Orchestrate(t, first, second)
    \/ \E t \in Tasks, ok \in BOOLEAN : Reply(t, ok)
    \/ \E t \in Tasks, ok \in BOOLEAN : ReplyError(t, ok)

SpecFail == Init /\ [][NextFail]_vars

\* ------------------------------------------- the tool loop on its own
\* Tool names the backend asks for: two registered, one not.
RequestedNames == {"add_numbers", "websearch", "no_such_tool"}
\* Argument values of a request: accepted by the function, or not.
RequestedArguments == {ValidArguments, InvalidArguments}

\* The tool-call lists of a completion: up to MaxToolCalls requests, each
\* with or without an "id" (the i-th request's id is i).
RequestShapes ==
    [name : RequestedNames, arguments : RequestedArguments,
     has_id : BOOLEAN]
ToolCallsOf(shapes) ==
    [i \in 1..Len(shapes) |->
        IF shapes[i].has_id
        THEN [id |-> i,
              function |-> [name |-> shapes[i].name,
                            arguments |-> shapes[i].arguments]]
        ELSE [function |-> [name |-> shapes[i].name,
                            arguments |-> shapes[i].arguments]]]
ToolCallLists ==
    {ToolCallsOf(shapes) :
        shapes \in UNION {[1..n -> RequestShapes] : n \in 0..MaxToolCalls}}

ChatFirstAnswers ==
    {FailedAnswer, NoneAnswer}
    \cup {Answer("msg", 1, n, tc) : n \in RespLens, tc \in ToolCallLists}
ChatSecondAnswers ==
    {FailedAnswer, NoneAnswer}
    \cup {Answer("msg", 2, n, tc) : n \in RespLens, tc \in {<<>>, OneToolCall}}

\* The message lists chat_with_tools is called with: the system message and
\* a first user turn, or that after an earlier exchange.
ChatMessageLists ==
    LET system == [role |-> "system", content |-> system_message]
        user(q) == [role |-> "user",
                    content |-> Text("{user_name}: {content}", q, 8)]
        said == [role |-> "assistant",
                 content |-> Text("I said: {content}", 1, 16)]
    IN  {<<system, user(1)>>, <<system, user(1), said, user(2)>>}

InitChat ==
    /\ InitBot
    /\ Connected
    /\ enable_mcp_tools = TRUE
    /\ chat_in \in [stage : {"called"}, messages : ChatMessageLists,
                    first : ChatFirstAnswers, second : ChatSecondAnswers]
    /\ chat_out = NoChat
    /\ parse_in = <<>>
    /\ parse_out = NoParse
    /\ gate_in = NoGate
    /\ gate_out = NoGate
    /\ tool_in = NoTool
    /\ tool_out = NoTool
    /\ Untrimmed
    /\ Unconnected

\* chat_with_tools runs on the drawn inputs.
CallChatWithTools ==
    /\ chat_out = NoChat
    /\ chat_out' = chat_with_tools(chat_in.messages,
                                   [first |-> chat_in.first,
                                    second |-> chat_in.second],
                                   DefaultModel, Options)
    /\ UNCHANGED <<botVars, chat_in, parse_in, parse_out, gate_in, gate_out,
                   tool_in, tool_out, trimVars, mcpVars>>

NextChat == CallChatWithTools

SpecChat == InitChat /\ [][NextChat]_vars

\* ------------------------------------- one query's backend round on its own
InitQuery ==
    /\ InitBot
    /\ Connected
    /\ enable_mcp_tools \in BOOLEAN
    /\ chat_in \in [stage : {"called"}, messages : ChatMessageLists,
                    first : ChatFirstAnswers, second : ChatSecondAnswers]
    /\ chat_out = NoChat
    /\ parse_in = <<>>
    /\ parse_out = NoParse
    /\ gate_in = NoGate
    /\ gate_out = NoGate
    /\ tool_in = NoTool
    /\ tool_out = NoTool
    /\ Untrimmed
    /\ Unconnected

\* Lines 249-298 run on the drawn inputs, in channel 1, whose history is
\* the drawn messages without the system message.
CallQueryModel ==
    /\ chat_out = NoChat
    /\ chat_out' = QueryModel(1 :> Tail(chat_in.messages), 1,
                              chat_in.messages, enable_mcp_tools,
                              [first |-> chat_in.first,
                               second |-> chat_in.second],
                              self_model)
    /\ UNCHANGED <<botVars, chat_in, parse_in, parse_out, gate_in, gate_out,
                   tool_in, tool_out, trimVars, mcpVars>>

NextQuery == CallQueryModel

SpecQuery == InitQuery /\ [][NextQuery]_vars

\* ------------------------------------------------ the parser on its own
InitParse ==
    /\ InitBot
    /\ Connected
    /\ enable_mcp_tools = TRUE
    /\ chat_in = NoChat
    /\ chat_out = NoChat
    /\ parse_in \in SeqsUpTo(Symbols, MaxQueryLen)
    /\ parse_out = NoParse
    /\ gate_in = NoGate
    /\ gate_out = NoGate
    /\ tool_in = NoTool
    /\ tool_out = NoTool
    /\ Untrimmed
    /\ Unconnected

\* _parse_model_from_query runs on the drawn query.
CallParseModelFromQuery ==
    /\ parse_out = NoParse
    /\ parse_out' = _parse_model_from_query(DefaultModel, parse_in)
    /\ UNCHANGED <<botVars, chat_in, chat_out, parse_in, gate_in, gate_out,
                   tool_in, tool_out, trimVars, mcpVars>>

NextParse == CallParseModelFromQuery

SpecParse == InitParse /\ [][NextParse]_vars

\* ------------------------------------------------ on_message on its own
\* A message content is a sequence of symbols: "@" is a mention token of
\* the bot (<@id> or <@!id>), " " a whitespace character, "a" any other
\* character.
ContentSymbols == {"@", "a", " "}
\* Longest message content of the gating specification, in symbols.
MaxContentLen == 4

\* re.sub(rf"<@!?{self.user.id}>", "", content)
RemoveMentions(content) == SelectSeq(content, LAMBDA ch : ch # "@")

\* on_message with the second branch tested by its own if, not by elif.
on_message_TwoIfs(message) ==
    IF message.author_is_self THEN <<>>
    ELSE (IF message.is_dm /\ strip(message.content) # <<>>
          THEN <<strip(message.content)>> ELSE <<>>)
         \o (IF message.mentioned
                 /\ strip(RemoveMentions(message.content)) # <<>>
              THEN <<strip(RemoveMentions(message.content))>> ELSE <<>>)

\* on_message(message): the queries handle_llm_query is called with, in
\* order. message is [author_is_self: message.author == self.user, is_dm:
\* the channel is a discord.DMChannel, mentioned: what
\* self.user.mentioned_in(message) returns, content].
on_message(message) ==
    IF message.author_is_self THEN <<>>
    ELSE IF message.is_dm
    THEN LET content == strip(message.content)
         IN  IF content # <<>> THEN <<content>> ELSE <<>>
    ELSE IF message.mentioned
    THEN LET content == strip(RemoveMentions(message.content))
         IN  IF content # <<>> THEN <<content>> ELSE <<>>
    ELSE <<>>

InitGate ==
    /\ InitBot
    /\ Connected
    /\ enable_mcp_tools = TRUE
    /\ chat_in = NoChat
    /\ chat_out = NoChat
    /\ parse_in = <<>>
    /\ parse_out = NoParse
    /\ gate_in \in [author_is_self : BOOLEAN, is_dm : BOOLEAN,
                     mentioned : BOOLEAN,
                     content : SeqsUpTo(ContentSymbols, MaxContentLen)]
    /\ gate_out = NoGate
    /\ tool_in = NoTool
    /\ tool_out = NoTool
    /\ Untrimmed
    /\ Unconnected

\* on_message runs on the drawn message.
CallOnMessage ==
    /\ gate_out = NoGate
    /\ gate_out' = [stage |-> "returned", queries |-> on_message(gate_in)]
    /\ UNCHANGED <<botVars, chat_in, chat_out, parse_in, parse_out, gate_in,
                   tool_in, tool_out, trimVars, mcpVars>>

NextGate == CallOnMessage

SpecGate == InitGate /\ [][NextGate]_vars

\* ------------------------------------------------------ start_discord_bot
\* The models a query can name: the configured default and one override.
OverrideModel == <<"b">>
Models == {DefaultModel, OverrideModel}

\* Queries without a marker and with a marker for the override model.
StartupQueries == {Word(4), <<"M">> \o OverrideModel \o <<" ">> \o Word(4)}

\* What the backend answers to a chat call for the model: it fails when it
\* rejects the context length for it, else it fails or answers.
BackendAnswers(model_name, t) ==
    IF model_name \in rejects THEN {FailedAnswer}
    ELSE {FailedAnswer, Answer("msg", t, 8, <<>>)}

\* Lines 359-364 with verify_context_length (159-186): the test call for
\* the configured model; when it raises, RuntimeError is raised and
\* start_discord_bot leaves with SystemExit(1).
VerifyContextLength(answer) ==
    /\ started = "startup"
    /\ started' = IF answer.kind = "raise" THEN "exited" ELSE "verified"
    /\ UNCHANGED <<conversation_history, enable_mcp_tools, pc, channel_id,
                   messages, response_text, failed, running, self_model,
                   task_query, model_to_use, calls, replied, typing, rejects,
                   pureVars>>

\* Line 365: await bot.start(token); messages are handled from here on.
BotStart ==
    /\ started = "verified"
    /\ started' = "connected"
    /\ UNCHANGED <<conversation_history, enable_mcp_tools, pc, channel_id,
                   messages, response_text, failed, running, self_model,
                   task_query, model_to_use, calls, replied, typing, rejects,
                   pureVars>>

InitStartup ==
    /\ InitBot
    /\ started = "startup"
    /\ rejects \in SUBSET Models
    /\ enable_mcp_tools \in BOOLEAN
    /\ chat_in = NoChat
    /\ chat_out = NoChat
    /\ parse_in = <<>>
    /\ parse_out = NoParse
    /\ gate_in = NoGate
    /\ gate_out = NoGate
    /\ tool_in = NoTool
    /\ tool_out = NoTool
    /\ Untrimmed
    /\ Unconnected

\* The bot is started, then handles queries; the backend answers every chat
\* call by what it rejects. Every reply is delivered.
NextStartup ==
    \/ \E answer \in BackendAnswers(self_model, 0) : VerifyContextLength(answer)
    \/ BotStart
    \/ \E t \in Tasks, c \in Channels, q \in StartupQueries : Start(t, c, q)
    \/ \E t \in Tasks : BuildMessages(t)
    \/ \E t \in Tasks :
          \E first \in BackendAnswers(model_to_use[t], t) :
              Orchestrate(t, first, FailedAnswer)
    \/ \E t \in Tasks : Reply(t, TRUE)
    \/ \E t \in Tasks : ReplyError(t, TRUE)

SpecStartup == InitStartup /\ [][NextStartup]_vars


\* ------------------------------------------------- a backend that is silent
\* Line 84: ollama.Client(host=ollama_host) is constructed without a
\* timeout (self.request_timeout of line 43 is never passed on), so its chat
\* calls wait for the backend without limit.
ClientHasTimeout == FALSE

\* Lines 251-256 or 285-289 with a backend that never answers: without a
\* timeout the call does not return, and the task keeps the event loop.
ChatHangs(t) ==
    /\ ~ClientHasTimeout
    /\ running = t
    /\ pc[t] = "chat"
    /\ pc' = [pc EXCEPT ![t] = "hung"]
    /\ UNCHANGED <<conversation_history, enable_mcp_tools, channel_id,
                   messages, response_text, failed, running, self_model,
                   task_query, model_to_use, calls, replied, typing, pureVars,
                   startVars>>

\* The backend answers, fails or stays silent. A silent backend is a
\* failure of the call when the client carries a timeout.
SilentAnswers == IF ClientHasTimeout THEN {FailedAnswer} ELSE {}

NextLive ==
    \/ \E t \in Tasks, c \in Channels : Start(t, c, Word(4))
    \/ \E t \in Tasks : BuildMessages(t)
    \/ \E t \in Tasks :
          \E first \in FailFirstAnswers(t) \cup SilentAnswers,
             second \in FailSecondAnswers(t) \cup SilentAnswers :
              Orchestrate(t, first, second)
    \/ \E t \in Tasks : ChatHangs(t)
    \/ \E t \in Tasks : Reply(t, TRUE)
    \/ \E t \in Tasks : ReplyError(t, TRUE)

\* The event loop runs every task that can be resumed, a backend call that
\* returns is taken up, and every reply is delivered.
FairLive ==
    \A t \in Tasks :
        /\ WF_vars(BuildMessages(t))
        /\ WF_vars(\E first \in FailFirstAnswers(t) \cup SilentAnswers,
                      second \in FailSecondAnswers(t) \cup SilentAnswers :
                       Orchestrate(t, first, second))
        /\ WF_vars(ChatHangs(t))
        /\ WF_vars(Reply(t, TRUE))
        /\ WF_vars(ReplyError(t, TRUE))

SpecLive == Init /\ [][NextLive]_vars /\ FairLive


\* ------------------------------------------------ the tools on their own
\* Largest magnitude of the int arguments.
MaxNumber == 3

NumericTools ==
    {"add_numbers", "subtract_numbers", "multiply_numbers", "divide_numbers"}

\* The str arguments: numbers written with and without point, sign and
\* surrounding whitespace, zero in several spellings, and texts that are
\* no number.
NumberTexts ==
    {<<"5">>, <<"1", "2">>, <<"2", ".", "5">>, <<"1", ".", "3">>,
     <<"-", "3">>, <<"+", "3">>, <<" ", "5", " ">>, <<".", "5">>,
     <<"5", ".">>, <<"0">>, <<"0", ".", "0">>, <<"-", "0">>,
     <<>>, <<" ">>, <<"a", "b", "c">>, <<"5", "x">>, <<".">>, <<"-">>,
     <<"1", ".", "2", ".", "3">>, <<"-", " ", "5">>}

\* The values a numeric argument is drawn from.
ArgumentValues ==
    {PyInt(n) : n \in (0 - MaxNumber)..MaxNumber}
    \cup {PyFloat(x) : x \in {-25, -5, 0, 5, 13, 15, 25, 30}}
    \cup {PyStr(text) : text \in NumberTexts}
    \cup {PyNone}

\* Calls of the numeric tools: with both arguments, and with one missing.
NumericCalls ==
    [name : NumericTools, arguments : [a : ArgumentValues, b : ArgumentValues]]
    \cup [name : NumericTools, arguments : [a : ArgumentValues]]

\* Longest text count_letters is called with, in characters.
MaxTextLen == 3

\* Calls of count_letters: texts of up to MaxTextLen characters, letters
\* of none, one and two characters.
CountCalls ==
    [name : {"count_letters"},
     arguments : [text : {PyStr(text) :
                             text \in SeqsUpTo(LetterChars, MaxTextLen)},
                  letter : {PyStr(letter) :
                               letter \in SeqsUpTo(LetterChars, 2)}]]

\* The airport codes get_metar is called with: of three and four letters
\* in either case, with whitespace around, and of other lengths.
IcaoCodes ==
    {<<"g", "t", "u">>, <<"G", "T", "U">>, <<"k", "g", "t", "u">>,
     <<"K", "J", "F", "K">>, <<" ", "g", "t", "u", " ">>, <<"g", "t">>,
     <<"g", "t", " ">>, <<>>}

\* Calls of get_metar, with the outcomes of its first and second exchange.
MetarCalls ==
    [name : {"get_metar"},
     arguments : [icao_code : {PyStr(code) : code \in IcaoCodes}],
     exchanges : [1..2 -> FetchOutcomes]]

\* The replies of the search endpoint: every list of up to MaxResults
\* distinct entries, in every order.
ResultLists ==
    {list \in SeqsUpTo(1..MaxResults, MaxResults) :
        \A i, j \in 1..Len(list) : i # j => list[i] # list[j]}

\* Calls of websearch: limits below, at and above the number of results,
\* and what the exchange with the endpoint gives.
WebsearchCalls ==
    [name : {"websearch"},
     arguments : [query : {PyStr(<<"a">>)},
                  limit : {PyInt(n) : n \in -2..(MaxResults + 1)}],
     exchange : {SearchFailed} \cup {SearchReply(list) : list \in ResultLists}]

InitTool ==
    /\ InitBot
    /\ Connected
    /\ enable_mcp_tools = TRUE
    /\ chat_in = NoChat
    /\ chat_out = NoChat
    /\ parse_in = <<>>
    /\ parse_out = NoParse
    /\ gate_in = NoGate
    /\ gate_out = NoGate
    /\ tool_in \in NumericCalls \cup CountCalls \cup MetarCalls
                  \cup WebsearchCalls
    /\ tool_out = NoTool
    /\ Untrimmed
    /\ Unconnected

\* The drawn call is made: directly (func(**arguments)) and through the
\* try block of call_tool, the tool being one of TOOL_FUNCTIONS.
CallTool ==
    /\ tool_out = NoTool
    /\ tool_in.name \notin {"get_metar", "websearch"}
    /\ tool_in.name \in TOOL_FUNCTIONS
    /\ tool_out' = [stage |-> "returned",
                    outcome |-> Invoke(tool_in.name, tool_in.arguments),
                    reply |-> TryCall(tool_in.name,
                                      Invoke(tool_in.name, tool_in.arguments))]
    /\ UNCHANGED <<botVars, chat_in, chat_out, parse_in, parse_out, gate_in,
                   gate_out, tool_in, trimVars, mcpVars>>

\* The drawn call of get_metar is made, its HTTP exchanges having the
\* drawn outcomes.
CallGetMetar ==
    /\ tool_out = NoTool
    /\ tool_in.name = "get_metar"
    /\ tool_out' = [stage |-> "returned",
                    outcome |-> get_metar(tool_in.arguments.icao_code.text,
                                          tool_in.exchanges)]
    /\ UNCHANGED <<botVars, chat_in, chat_out, parse_in, parse_out, gate_in,
                   gate_out, tool_in, trimVars, mcpVars>>

\* The drawn call of websearch is made, the exchange with the endpoint
\* having the drawn outcome.
CallWebsearch ==
    /\ tool_out = NoTool
    /\ tool_in.name = "websearch"
    /\ tool_out' = [stage |-> "returned",
                    outcome |-> websearch(tool_in.arguments.query.text,
                                          tool_in.arguments.limit.value,
                                          tool_in.exchange)]
    /\ UNCHANGED <<botVars, chat_in, chat_out, parse_in, parse_out, gate_in,
                   gate_out, tool_in, trimVars, mcpVars>>

NextTool == CallTool \/ CallGetMetar \/ CallWebsearch

SpecTool == InitTool /\ [][NextTool]_vars


\* ================================================================ claims
\* Task t's user turn is in its channel's history but its assistant turn is
\* not yet: between its Start and its Orchestrate.
TurnOpen(t) == pc[t] \in {"typing", "chat"}

\* The channel's history, the empty list when the channel has none yet.
HistoryOf(history, c) == IF c \in DOMAIN history THEN history[c] ELSE <<>>

\* C1: two queries in one channel do not interleave their appendUser / trim
\* / appendAssistant steps: while a query's turn is open (its user entry
\* appended, its assistant entry not yet), no step of another query changes
\* that channel's history.
C1_NoInterleaving ==
    [][\A t \in Tasks, u \in Tasks :
          (/\ t # u
           /\ TurnOpen(t)
           /\ pc'[u] # pc[u]
           /\ channel_id'[u] = channel_id[t])
          => HistoryOf(conversation_history', channel_id[t])
             = HistoryOf(conversation_history, channel_id[t])]_vars

\* Entry i of history h is the user's turn of query t.
IsUserTurn(h, i, t) == h[i].role = "user" /\ h[i].content.q = t
\* Entry j of history h is an assistant entry (reply or marker) of query t.
IsAssistantTurn(h, j, t) == h[j].role = "assistant" /\ h[j].content.q = t

\* C2: after a query whose backend call failed has finished, the channel's
\* history holds no user turn of that query without an assistant reply or
\* error marker of that query after it.
C2_NoOrphanedUserTurn ==
    \A t \in Tasks :
        (pc[t] = "done" /\ failed[t]) =>
            LET h == HistoryOf(conversation_history, channel_id[t])
            IN  \A i \in 1..Len(h) :
                    IsUserTurn(h, i, t) =>
                        \E j \in (i + 1)..Len(h) : IsAssistantTurn(h, j, t)

\* Estimated tokens of the system prompt plus every entry of history h.
EstimatedTokens(h) == _estimate_tokens(system_message) + SumTokens(h)
\* The token budget holds for h, or h holds exactly one entry.
WithinBudget(h) == EstimatedTokens(h) <= token_threshold \/ Len(h) = 1
\* s is what is left of h after removing entries from its oldest end.
IsSuffix(s, h) ==
    /\ Len(s) <= Len(h)
    /\ \A i \in 1..Len(s) : s[i] = h[Len(h) - Len(s) + i]

\* C7: when _trim_history_if_needed returns (the step that appends a user
\* turn and trims), the estimated tokens of system prompt plus history are
\* within int(context_length * context_trim_threshold) or the history holds
\* exactly one entry; what is left is the appended history with entries
\* removed from its oldest end only, the newest entry being the user turn
\* just appended.
C7_TrimToBudget ==
    [][\A t \in Tasks :
          (pc[t] = "idle" /\ pc'[t] = "typing") =>
              LET c == channel_id'[t]
                  before == HistoryOf(conversation_history, c)
                  after == HistoryOf(conversation_history', c)
              IN  /\ WithinBudget(after)
                  /\ Len(after) >= 1
                  /\ IsUserTurn(after, Len(after), t)
                  /\ IsSuffix(SubSeq(after, 1, Len(after) - 1), before)]_vars

\* C7 witness: a query's user turn was appended after an answered exchange
\* of the same channel and trim removed the oldest entry (the earlier user
\* turn), leaving two entries within the budget.
C7_Witness ==
    \E t \in Tasks, u \in Tasks :
        /\ pc[t] = "typing" /\ pc[u] = "done"
        /\ channel_id[t] = channel_id[u]
        /\ Len(conversation_history[channel_id[t]]) = 2
        /\ IsAssistantTurn(conversation_history[channel_id[t]], 1, u)
        /\ IsUserTurn(conversation_history[channel_id[t]], 2, t)
        /\ EstimatedTokens(conversation_history[channel_id[t]])
               <= token_threshold

\* Also reachable: trim stopped at one entry although it is over budget.
C7_SingleEntryOverBudget ==
    \E t \in Tasks, u \in Tasks :
        /\ t # u
        /\ pc[t] = "typing" /\ pc[u] = "typing"
        /\ channel_id[t] = channel_id[u]
        /\ Len(conversation_history[channel_id[t]]) = 1
        /\ EstimatedTokens(conversation_history[channel_id[t]])
               > token_threshold

\* The history part of a message list built for the model.
HistoryPart(msgs) == SubSeq(msgs, 2, Len(msgs))

\* C8: the message list a query sends in its first model call satisfies the
\* token budget or carries exactly one history entry, overlapping queries
\* in one channel included.
C8_FirstCallWithinBudget ==
    \A t \in Tasks :
        pc[t] = "chat" => WithinBudget(HistoryPart(messages[t]))

\* C9: the message list built for the first model call is the system message
\* followed by the channel's history in order, holds exactly one system-role
\* message, at index 0, and building it leaves the history as it was.
C9_SnapshotIsSystemPlusHistory ==
    [][\A t \in Tasks :
          (pc[t] = "typing" /\ pc'[t] = "chat") =>
              LET h == HistoryOf(conversation_history, channel_id[t])
                  built == messages'[t]
              IN  /\ Len(built) = Len(h) + 1
                  /\ built[1] = [role |-> "system",
                                 content |-> system_message]
                  /\ \A i \in 1..Len(h) : built[i + 1] = h[i]
                  /\ {i \in 1..Len(built) : built[i].role = "system"} = {1}
                  /\ conversation_history' = conversation_history]_vars

\* C9 witness: a list was built over a history of a user turn, an assistant
\* turn and a second user turn.
C9_Witness ==
    \E t \in Tasks :
        /\ pc[t] = "chat"
        /\ Len(messages[t]) = 4
        /\ messages[t][3].role = "assistant"
        /\ HistoryPart(messages[t]) = conversation_history[channel_id[t]]

\* ------------------------------------------------- claims on the tool loop
\* chat_with_tools has run on inputs whose first completion carries at
\* least one tool-call request.
ToolsRequested ==
    /\ chat_out # NoChat
    /\ chat_in.first.kind = "msg"
    /\ chat_in.first.message.tool_calls # <<>>

\* The positions of the backend calls in a trace.
ChatEvents(trace) == {i \in 1..Len(trace) : trace[i].ev = "chat"}
\* The positions of the call_tool calls in a trace.
ToolEvents(trace) == {i \in 1..Len(trace) : trace[i].ev = "call_tool"}

\* C3: when the first completion carries n >= 1 tool-call requests, the raw
\* assistant message is appended to a copy of the messages, the n tools are
\* called in the order of the requests, one role=tool message is appended
\* per request in that order (with the request's id as tool_call_id when it
\* has one), and then exactly one follow-up chat call is made, without tool
\* declarations, on that extended list.
C3_ToolRoundTrip ==
    ToolsRequested =>
        LET requests == chat_in.first.message.tool_calls
            n == Len(requests)
            base == Len(chat_in.messages)
            trace == chat_out.trace
            sent == trace[n + 2].messages
        IN  /\ Len(trace) = n + 2
            /\ trace[1].ev = "chat" /\ trace[1].tools
            /\ trace[1].messages = chat_in.messages
            /\ \A i \in 1..n :
                  /\ trace[i + 1].ev = "call_tool"
                  /\ trace[i + 1].name = requests[i].function.name
                  /\ trace[i + 1].arguments = requests[i].function.arguments
            /\ trace[n + 2].ev = "chat" /\ ~trace[n + 2].tools
            /\ Len(sent) = base + 1 + n
            /\ SubSeq(sent, 1, base) = chat_in.messages
            /\ sent[base + 1] = chat_in.first.message
            /\ \A i \in 1..n :
                  LET m == sent[base + 1 + i]
                  IN  /\ m.role = "tool"
                      /\ m.content = trace[i + 1].result
                      /\ ("id" \in DOMAIN requests[i]) =>
                             ("tool_call_id" \in DOMAIN m
                              /\ m.tool_call_id = requests[i].id)

\* C3 witness: two requests for different tools, the first with an id and
\* the second without, were served and the follow-up call answered.
C3_Witness ==
    /\ ToolsRequested
    /\ ~chat_out.raised
    /\ Len(chat_in.first.message.tool_calls) = 2
    /\ "id" \in DOMAIN chat_in.first.message.tool_calls[1]
    /\ "id" \notin DOMAIN chat_in.first.message.tool_calls[2]
    /\ chat_in.first.message.tool_calls[1].function.name
           # chat_in.first.message.tool_calls[2].function.name
    /\ Len(chat_out.conversation) = Len(chat_in.messages) + 3

\* C4: one resolution round only: at most two chat calls are made, tool-call
\* requests of the second completion are never executed (every call_tool
\* precedes the second chat call, one per request of the first completion),
\* and the text of the second completion is what is returned.
C4_OneResolutionRound ==
    chat_out # NoChat =>
        LET trace == chat_out.trace
            requested == IF chat_in.first.kind = "msg"
                         THEN Len(chat_in.first.message.tool_calls)
                         ELSE 0
        IN  /\ Cardinality(ChatEvents(trace)) <= 2
            /\ Cardinality(ToolEvents(trace)) = requested
            /\ Cardinality(ChatEvents(trace)) = 2 =>
                  /\ trace[Len(trace)].ev = "chat"
                  /\ ~chat_out.raised =>
                        chat_out.text = ResponseText(chat_in.second)

\* C4 witness: the second completion itself carried a tool-call request and
\* its text was returned.
C4_Witness ==
    /\ ToolsRequested
    /\ ~chat_out.raised
    /\ chat_in.second.kind = "msg"
    /\ chat_in.second.message.tool_calls # <<>>
    /\ chat_out.text = chat_in.second.message.content
    /\ chat_out.text # chat_in.first.message.content

\* Request i asks for a registered tool with arguments that make it raise.
RequestRaises(request) ==
    /\ request.function.name \in TOOL_FUNCTIONS
    /\ ToolFunction(request.function.name, request.function.arguments).raised

\* C5: a tool that raises does not abort the loop: its result is the error
\* text, every request after it is still executed, in order, and the
\* follow-up chat call is still made.
C5_ToolFailureDoesNotAbort ==
    ToolsRequested =>
        LET requests == chat_in.first.message.tool_calls
            n == Len(requests)
            trace == chat_out.trace
        IN  \A i \in 1..n :
                RequestRaises(requests[i]) =>
                    /\ Len(trace) = n + 2
                    /\ trace[i + 1].ev = "call_tool"
                    /\ trace[i + 1].result.fmt
                           = "Error calling tool {tool_name}: {e}"
                    /\ trace[i + 1].result.name = requests[i].function.name
                    /\ \A j \in (i + 1)..n :
                          /\ trace[j + 1].ev = "call_tool"
                          /\ trace[j + 1].name = requests[j].function.name
                    /\ trace[n + 2].ev = "chat"
                    /\ LET m == trace[n + 2].messages[
                                    Len(chat_in.messages) + 1 + i]
                       IN  m.role = "tool" /\ m.content = trace[i + 1].result

\* C5 witness: the first of two requested tools raised, the second was
\* still called and returned, and the follow-up call was answered.
C5_Witness ==
    /\ ToolsRequested
    /\ ~chat_out.raised
    /\ Len(chat_in.first.message.tool_calls) = 2
    /\ RequestRaises(chat_in.first.message.tool_calls[1])
    /\ chat_out.trace[3].ev = "call_tool"
    /\ chat_out.trace[3].result.fmt = "str(result)"
    /\ chat_out.trace[4].ev = "chat"

\* C6: call_tool fails closed: each call returns a text and lets no
\* exception escape; for a name that is not registered the text is the
\* unknown-tool error naming that tool and no tool function is invoked.
C6_CallToolFailsClosed ==
    chat_out # NoChat =>
        \A i \in ToolEvents(chat_out.trace) :
            LET e == chat_out.trace[i]
            IN  /\ ~e.escaped
                /\ e.result.fmt \in {"Unknown tool: {tool_name}",
                                     "Error calling tool {tool_name}: {e}",
                                     "str(result)"}
                /\ e.name \notin TOOL_FUNCTIONS =>
                      /\ e.result.fmt = "Unknown tool: {tool_name}"
                      /\ e.result.name = e.name
                      /\ ~e.invoked

\* C6 witness: an unregistered tool and a registered tool with arguments it
\* rejects were both requested, and both calls returned.
C6_Witness ==
    /\ ToolsRequested
    /\ Len(chat_out.trace) = 4
    /\ chat_out.trace[2].name \notin TOOL_FUNCTIONS
    /\ chat_out.trace[2].result.fmt = "Unknown tool: {tool_name}"
    /\ chat_out.trace[3].name \in TOOL_FUNCTIONS
    /\ chat_out.trace[3].arguments = InvalidArguments
    /\ chat_out.trace[3].result.fmt = "Error calling tool {tool_name}: {e}"

\* ------------------------------------------------- claims on the parser
\* The number of non-overlapping matches of the pattern in q from position
\* i on, found from the left: the !model= markers of the query.
RECURSIVE CountMarkers(_, _)
CountMarkers(q, i) ==
    IF i > Len(q) THEN 0
    ELSE IF MatchesAt(q, i) THEN 1 + CountMarkers(q, RunEnd(q, i + 1) + 1)
    ELSE CountMarkers(q, i + 1)

\* The query with only its leftmost marker removed (what re.sub with
\* count = 1 would return).
RemoveFirstMarker(q) ==
    LET m == re_search(q)
    IN  IF m.start = 0 THEN q
        ELSE SubSeq(q, 1, m.start - 1) \o SubSeq(q, m.end + 1, Len(q))

\* C10: for a query with several !model= markers, the model is the first
\* marker's token, only that first occurrence is removed, and every later
\* marker is still in the cleaned query, verbatim.
C10_OnlyFirstMarkerRemoved ==
    (parse_out # NoParse /\ CountMarkers(parse_in, 1) >= 2) =>
        /\ parse_out.model = re_search(parse_in).group1
        /\ parse_out.cleaned_query = strip(RemoveFirstMarker(parse_in))
        /\ CountMarkers(parse_out.cleaned_query, 1)
               = CountMarkers(parse_in, 1) - 1

\* The text q holds exactly one marker, at positions i..j: "!model=" at i
\* and its token, the whole run of non-whitespace after it, up to j.
OnlyMarkerAt(q, i, j) ==
    /\ CountMarkers(q, 1) = 1
    /\ MatchesAt(q, i)
    /\ \A k \in 1..(i - 1) : ~MatchesAt(q, k)
    /\ j = RunEnd(q, i + 1)

\* C11 (as amended): for a query with exactly one !model=<token> marker,
\* the model is <token> and the cleaned query is the original text with the
\* marker cut out and then leading and trailing whitespace stripped; the
\* whitespace that stood on either side of a marker inside the text stays.
C11_MarkerCutThenStripped ==
    parse_out # NoParse =>
        \A i \in 1..Len(parse_in), j \in 1..Len(parse_in) :
            OnlyMarkerAt(parse_in, i, j) =>
                /\ parse_out.model = SubSeq(parse_in, i + 1, j)
                /\ parse_out.cleaned_query
                       = strip(SubSeq(parse_in, 1, i - 1)
                               \o SubSeq(parse_in, j + 1, Len(parse_in)))

\* C11 witness: the marker stood between two words, and the cleaned query
\* keeps both spaces.
C11_Witness ==
    /\ parse_in = <<"a", " ", "M", "b", " ", "a">>
    /\ parse_out # NoParse
    /\ parse_out.model = <<"b">>
    /\ parse_out.cleaned_query = <<"a", " ", " ", "a">>

\* The text before the marker at i..j and the text after it, each without
\* the whitespace next to the marker, joined by one space when both are
\* left: the marker and the extra whitespace around it removed.
CutWithSurroundingSpace(q, i, j) ==
    LET before == rstrip(SubSeq(q, 1, i - 1))
        after == lstrip(SubSeq(q, j + 1, Len(q)))
    IN  IF before = <<>> \/ after = <<>> THEN before \o after
        ELSE before \o <<" ">> \o after

\* C11 (as stated): for a query with exactly one !model=<token> marker, the
\* model is <token> and the cleaned query is the original text with the
\* marker and the extra whitespace surrounding it removed.
C11_SurroundingSpaceRemoved ==
    parse_out # NoParse =>
        \A i \in 1..Len(parse_in), j \in 1..Len(parse_in) :
            OnlyMarkerAt(parse_in, i, j) =>
                /\ parse_out.model = SubSeq(parse_in, i + 1, j)
                /\ parse_out.cleaned_query
                       = strip(CutWithSurroundingSpace(parse_in, i, j))

\* C12: for a query without a !model= marker the parser returns the
\* configured default model and the query text unchanged, aside from
\* trimming (the code returns it as it came, untrimmed).
C12_NoMarkerDefaultModel ==
    (parse_out # NoParse /\ CountMarkers(parse_in, 1) = 0) =>
        /\ parse_out.model = DefaultModel
        /\ parse_out.cleaned_query \in {parse_in, strip(parse_in)}

\* C12 witness: a query without a marker (a "!model=" with no token after
\* it is none) was parsed.
C12_Witness ==
    /\ parse_in = <<" ", "a", " ", "M", " ", "b">>
    /\ parse_out # NoParse
    /\ parse_out.model = DefaultModel

\* ------------------------------------------ claims on the model override
\* C13: a model override applies to the query that carries it only. No
\* step changes the configured default model; every backend call of a
\* query without a marker names the configured default model, whatever
\* earlier queries carried, and every backend call of a query with a marker
\* names that marker's token.
C13_OverrideThisQueryOnly ==
    [][/\ self_model' = self_model
       /\ self_model = DefaultModel
       /\ \A t \in Tasks :
             \A i \in ChatEvents(calls'[t]) :
                 calls'[t][i].model
                     = IF CountMarkers(task_query'[t], 1) = 0
                       THEN DefaultModel
                       ELSE re_search(task_query'[t]).group1]_vars

\* C13 witness: the first query carried a marker and was sent to its
\* model; the second query, in the same channel or another, carried none
\* and was sent to the configured default model.
C13_Witness ==
    /\ pc[1] = "reply" /\ pc[2] = "reply"
    /\ CountMarkers(task_query[1], 1) = 1
    /\ calls[1][1].model = <<"b">>
    /\ CountMarkers(task_query[2], 1) = 0
    /\ calls[2] # <<>>
    /\ \A i \in ChatEvents(calls[2]) : calls[2][i].model = DefaultModel

\* ----------------------------------------------------- claims on gating
\* C14: on_message issues a query for an inbound message if and only if
\* the message is not the bot's own and either the channel is a direct
\* message channel and the content holds a character that is not
\* whitespace, or the channel is shared, the bot is mentioned and the
\* content holds a character that is neither whitespace nor part of a
\* mention of the bot; it issues at most one query per message.
C14_Gating ==
    gate_out # NoGate =>
        LET content == gate_in.content
            triggers ==
                /\ ~gate_in.author_is_self
                /\ \/ /\ gate_in.is_dm
                      /\ \E i \in 1..Len(content) : content[i] # " "
                   \/ /\ ~gate_in.is_dm
                      /\ gate_in.mentioned
                      /\ \E i \in 1..Len(content) :
                            content[i] \notin {" ", "@"}
        IN  /\ Len(gate_out.queries) <= 1
            /\ Len(gate_out.queries) = 1 <=> triggers

\* C14 witness: a mention and a word in a shared channel issued one query,
\* the word.
C14_Witness ==
    /\ gate_out # NoGate
    /\ ~gate_in.author_is_self /\ ~gate_in.is_dm /\ gate_in.mentioned
    /\ gate_in.content = <<"@", " ", "a">>
    /\ gate_out.queries = << <<"a">> >>

\* ---------------------------------------------------- claims on replies
\* The number of characters of a slice.
SliceLen(slice) == slice.to - slice.from

\* C15: the replies of a query are consecutive slices of the full reply
\* text, sent in order from its first character on: none is empty, each but
\* the last is exactly discord_msg_limit characters and the last at most
\* that; the handler returns exactly when the slice that ends the text is
\* sent, so the slices sent add up to the text; a text of at most
\* discord_msg_limit characters is sent as one message.
C15_Chunking ==
    [][\A t \in Tasks :
          (pc[t] = "reply" /\ replied'[t] # replied[t]) =>
              LET text == response_text[t]
                  chunks == replied'[t]
                  n == Len(chunks)
              IN  /\ n = Len(replied[t]) + 1
                  /\ \A k \in 1..n : chunks[k].text = text
                  /\ chunks[1].from = 0
                  /\ \A k \in 1..(n - 1) :
                        /\ chunks[k + 1].from = chunks[k].to
                        /\ SliceLen(chunks[k]) = discord_msg_limit
                  /\ SliceLen(chunks[n]) >= 1
                  /\ SliceLen(chunks[n]) <= discord_msg_limit
                  /\ pc'[t] = "done" <=> chunks[n].to = text.len
                  /\ text.len <= discord_msg_limit => n = 1]_vars

\* C15 witness: a reply of twice the limit and one character more was sent
\* as three messages, the last of one character.
C15_Witness ==
    \E t \in Tasks :
        /\ pc[t] = "done" /\ ~failed[t]
        /\ Len(replied[t]) = 3
        /\ SliceLen(replied[t][1]) = discord_msg_limit
        /\ SliceLen(replied[t][3]) = 1
        /\ replied[t][3].to = replied[t][3].text.len

\* C16: within one channel the queries are replied to in the order their
\* messages arrived: when a query sends a reply (a chunk, the whole text or
\* an error message), every query of an earlier message in that channel
\* has sent all of its replies and returned. Task t is the t-th message.
C16_RepliesInArrivalOrder ==
    [][\A t \in Tasks, u \in Tasks :
          (/\ t < u
           /\ channel_id[t] = channel_id[u]
           /\ replied'[u] # replied[u])
          => pc[t] \in {"done", "escaped"}]_vars

\* ------------------------------------------- claims on channel isolation
\* Task t takes the step: its position or its replies change.
Acts(t) == pc'[t] # pc[t] \/ replied'[t] # replied[t]

\* C17: no step of a query in channel A (user append, trim, snapshot,
\* assistant append, failure path, replies) changes the history of another
\* channel B, or creates or removes it.
C17_OtherChannelsUntouched ==
    [][\A t \in Tasks :
          Acts(t) =>
              \A b \in Channels \ {channel_id'[t]} :
                  /\ b \in DOMAIN conversation_history'
                        <=> b \in DOMAIN conversation_history
                  /\ HistoryOf(conversation_history', b)
                        = HistoryOf(conversation_history, b)]_vars

\* C17 witness: a query failed in channel 1 after a query in channel 2 had
\* been answered; channel 2 holds its exchange, channel 1 the user turn.
C17_Witness ==
    \E t \in Tasks, u \in Tasks :
        /\ channel_id[t] = 1 /\ pc[t] = "done" /\ failed[t]
        /\ channel_id[u] = 2 /\ pc[u] = "done" /\ ~failed[u]
        /\ u < t
        /\ Len(HistoryOf(conversation_history, 1)) = 1
        /\ Len(HistoryOf(conversation_history, 2)) = 2

\* ------------------------------------------- claims on the backend wait
\* A step of task u's handler in channel b: its message arrives, or an
\* await of it completes and it runs to its next one.
Progress(u, b) ==
    \/ \E n \in QueryLens : Start(u, b, Word(n))
    \/ channel_id[u] = b /\ BuildMessages(u)
    \/ channel_id[u] = b /\ Reply(u, TRUE)
    \/ channel_id[u] = b /\ ReplyError(u, TRUE)

\* Task u has a step to take in channel b once the event loop lets it: its
\* message is next to arrive, or it stands at an await.
Ready(u, b) ==
    \/ pc[u] = "idle" /\ \A v \in Tasks : v < u => pc[v] # "idle"
    \/ channel_id[u] = b /\ pc[u] \in {"typing", "reply", "error"}

\* C18: while a query in channel A waits for a model completion, a
\* message-handling task of another channel B that has a step to take can
\* take it.
C18_BackendWaitDoesNotBlock ==
    \A t \in Tasks, u \in Tasks, b \in Channels :
        (/\ pc[t] = "chat"
         /\ b # channel_id[t]
         /\ Ready(u, b))
        => ENABLED Progress(u, b)

\* -------------------------------------------- claims on failure handling
\* The reply is the error message of the except branch.
IsErrorReply(reply) == reply.text.fmt = "Error processing your request: {e}"

\* C19: a failure of the model call, of the tool orchestration or of
\* sending the reply is caught in handle_llm_query and turned into one
\* error reply: no exception leaves the handler, and a query that failed
\* and returned has sent exactly one error reply.
C19_FailuresBecomeOneErrorReply ==
    \A t \in Tasks :
        /\ pc[t] # "escaped"
        /\ (pc[t] = "done" /\ failed[t]) =>
               Cardinality({k \in 1..Len(replied[t]) :
                               IsErrorReply(replied[t][k])}) = 1

\* ------------------------------------------ claims on the tool-free round
\* C20: when tools are disabled, or the first completion carries no
\* tool-call requests, the query makes exactly one backend call (declaring
\* tools only when they are enabled) and calls no tool, and the text it
\* returns is the text of that completion.
C20_OneCompletionNoTools ==
    (/\ chat_out # NoChat
     /\ chat_in.first.kind = "msg"
     /\ ~enable_mcp_tools \/ chat_in.first.message.tool_calls = <<>>)
    => /\ Cardinality(ChatEvents(chat_out.trace)) = 1
       /\ ToolEvents(chat_out.trace) = {}
       /\ chat_out.trace[1].messages = chat_in.messages
       /\ chat_out.trace[1].tools = enable_mcp_tools
       /\ ~chat_out.raised
       /\ chat_out.text = chat_in.first.message.content

\* C20 witness: with tools disabled the completion carried two tool
\* requests and a text; one call was made and the text returned.
C20_Witness ==
    /\ chat_out # NoChat
    /\ ~enable_mcp_tools
    /\ chat_in.first.kind = "msg"
    /\ Len(chat_in.first.message.tool_calls) = 2
    /\ Len(chat_out.trace) = 1
    /\ chat_out.text.len = 8
    /\ chat_out.text = chat_in.first.message.content

\* C20 witness, tools enabled: the first completion carried no tool
\* request, and its text was returned after the one call.
C20_WitnessEnabled ==
    /\ chat_out # NoChat
    /\ enable_mcp_tools
    /\ chat_in.first.kind = "msg"
    /\ chat_in.first.message.tool_calls = <<>>
    /\ Len(chat_out.trace) = 1
    /\ chat_out.trace[1].tools
    /\ chat_out.text.len = 8

\* ------------------------------------------------ claims on the fallback
\* The completion carries a message without text and without tool requests.
IsEmptyCompletion(answer) ==
    /\ answer.kind = "msg"
    /\ ~Truthy(answer.message.content)
    /\ answer.message.tool_calls = <<>>

\* The final completion of a round answered by first and second is empty:
\* the first one when it asks for no tool (or tools are disabled), the
\* follow-up one after a tool round.
FinalIsEmpty(first, second) ==
    \/ IsEmptyCompletion(first)
    \/ /\ enable_mcp_tools
       /\ first.kind = "msg"
       /\ first.message.tool_calls # <<>>
       /\ IsEmptyCompletion(second)

\* C21: when the final completion has no content and no tool calls, the
\* text to reply with is the literal fallback string, and every reply that
\* is sent is a non-empty message: the fallback as a whole when the text is
\* the fallback.
C21_FallbackForEmptyCompletion ==
    [][\A t \in Tasks :
          /\ \A first \in FirstAnswers(t), second \in SecondAnswers(t) :
                (Orchestrate(t, first, second) /\ FinalIsEmpty(first, second))
                => /\ response_text'[t] = FallbackText
                   /\ pc'[t] = "reply"
          /\ Reply(t, TRUE) =>
                LET sent == replied'[t][Len(replied'[t])]
                IN  /\ sent.to > sent.from
                    /\ response_text[t] = FallbackText
                       => sent = Slice(FallbackText, 0, FallbackLen)]_vars

\* C21 witness: a query whose follow-up completion after a tool round was
\* empty stands before its reply with the fallback text.
C21_Witness ==
    \E t \in Tasks :
        /\ pc[t] = "reply"
        /\ Len(calls[t]) = 3
        /\ response_text[t] = FallbackText

\* C21 witness, replied: the one reply of a finished query is the fallback.
C21_WitnessReplied ==
    \E t \in Tasks :
        /\ pc[t] = "done"
        /\ replied[t] = <<Slice(FallbackText, 0, FallbackLen)>>

\* ----------------------------------------------------- claims on startup
\* C22: a backend rejection of the context length for a model is a fatal
\* startup condition, never a per-message error: the bot connects only
\* after a verification that did not fail, a rejection for the configured
\* model ends start_discord_bot before it connects and no query is ever
\* handled, and no query calls the backend for a model that rejects the
\* context length.
C22_RejectionIsStartupOnly ==
    /\ started = "connected" => self_model \notin rejects
    /\ self_model \in rejects =>
           /\ started \in {"startup", "exited"}
           /\ \A t \in Tasks : pc[t] = "idle"
    /\ \A t \in Tasks : pc[t] = "chat" => model_to_use[t] \notin rejects

\* The startup part of C22 alone: it holds.
C22_StartupPart ==
    /\ started = "connected" => self_model \notin rejects
    /\ self_model \in rejects =>
           /\ started \in {"startup", "exited"}
           /\ \A t \in Tasks : pc[t] = "idle"

\* A query named a model the backend rejects the context length for, and
\* its user got the error reply.
C22_PerMessageError ==
    \E t \in Tasks :
        /\ pc[t] = "done"
        /\ failed[t]
        /\ rejects = {OverrideModel}
        /\ Len(replied[t]) = 1
        /\ IsErrorReply(replied[t][1])

\* ------------------------------------------------- claims on termination
\* C23: every query that is issued eventually ends with at least one reply
\* sent to the user.
C23_EveryQueryIsAnswered ==
    \A t \in Tasks : (pc[t] = "typing") ~> (Len(replied[t]) > 0)

\* The safety side of C23: no backend call is left waiting without limit.
C23_NoCallHangs == \A t \in Tasks : pc[t] # "hung"

C24_WitnessReleased ==
    \E t \in Tasks :
        /\ pc[t] \in {"done", "escaped"}
        /\ failed[t]
        /\ ~typing[t]

\* ------------------------------------------- claims on a context's lifetime
\* The channels a query has been issued in so far.
QueriedChannels == {channel_id[t] : t \in {u \in Tasks : pc[u] # "idle"}}

\* C25: a channel has a context exactly when a query has been issued in it
\* (it is created by the first query and never removed), and a context
\* that exists is never empty, even when its one entry is over the budget.
C25_ContextCreatedLazilyAndKept ==
    /\ DOMAIN conversation_history = QueriedChannels
    /\ \A c \in DOMAIN conversation_history :
           Len(conversation_history[c]) >= 1

\* C25 witness: after a second query in a channel the trim has popped the
\* first query's turn and kept the second's, which alone is over the
\* budget, while the other channel has no context.
C25_Witness ==
    \E c \in Channels :
        /\ DOMAIN conversation_history = {c}
        /\ Len(conversation_history[c]) = 1
        /\ conversation_history[c][1].content.q = 2
        /\ _estimate_tokens(system_message)
               + SumTokens(conversation_history[c]) > token_threshold

\* ------------------------------------------------ claims on the numeric tools
\* A numeric tool was called with both arguments.
NumericCalled(name) ==
    /\ tool_out # NoTool
    /\ tool_in.name = name
    /\ DOMAIN tool_in.arguments = {"a", "b"}

\* The argument is a number or a str that float() accepts.
IsNumeric(x) == ~float(x).raised
\* The argument is numeric and its value is zero.
IsZero(x) == IsNumeric(x) /\ float(x).value.units = 0

\* C26: divide(a, 0) always yields an error result, never a numeric value
\* or a crash: for every dividend and every divisor equal to zero (0, 0.0,
\* or a str denoting zero) divide_numbers raises ValueError and returns no
\* value; for a numeric dividend the error is the division-by-zero one;
\* through call_tool the outcome is the error text and no exception leaves.
C26_DivideByZeroIsAnError ==
    (NumericCalled("divide_numbers") /\ IsZero(tool_in.arguments.b))
    => /\ tool_out.outcome.raised
       /\ tool_out.outcome.exc = "ValueError"
       /\ IsNumeric(tool_in.arguments.a)
          => tool_out.outcome.msg.e = "Division by zero is not allowed"
       /\ ~tool_out.reply.escaped
       /\ tool_out.reply.result.fmt = "Error calling tool {tool_name}: {e}"

\* C26 witness: 2.5 was divided by the str "0.0".
C26_Witness ==
    /\ NumericCalled("divide_numbers")
    /\ tool_in.arguments.a = PyFloat(25)
    /\ tool_in.arguments.b = PyStr(<<"0", ".", "0">>)
    /\ tool_out.outcome.raised
    /\ tool_out.reply.result.fmt = "Error calling tool {tool_name}: {e}"

\* The float the tool computes from the floats of its arguments.
Computed(name, x, y) ==
    CASE name = "add_numbers" -> FloatAdd(x, y)
      [] name = "subtract_numbers" -> FloatSub(x, y)
      [] name = "multiply_numbers" -> FloatMul(x, y)
      [] name = "divide_numbers" -> FloatDiv(x, y)

\* C27: for add, subtract, multiply and divide with a non-zero divisor, on
\* numeric arguments, the tool returns a value: an int exactly when the
\* computed result has zero fractional part, and then the int of that
\* value, else the computed float itself.
C27_IntExactlyWhenWhole ==
    \A name \in NumericTools :
        (/\ NumericCalled(name)
         /\ IsNumeric(tool_in.arguments.a)
         /\ IsNumeric(tool_in.arguments.b)
         /\ name = "divide_numbers" => ~IsZero(tool_in.arguments.b))
        => LET result == Computed(name, float(tool_in.arguments.a).value,
                                  float(tool_in.arguments.b).value)
               returned == tool_out.outcome
           IN  /\ ~returned.raised
               /\ returned.value.type \in {"int", "float"}
               /\ returned.value.type = "int"
                  <=> result.units % FloatScale = 0
               /\ returned.value.type = "int"
                  => returned.value.value * FloatScale = result.units
               /\ returned.value.type = "float" => returned.value = result

\* C27 witness: 2.5 + 1.5 returned the int 4.
C27_Witness ==
    /\ NumericCalled("add_numbers")
    /\ tool_in.arguments.a = PyFloat(25)
    /\ tool_in.arguments.b = PyFloat(15)
    /\ tool_out.outcome = Returned(PyInt(4))

\* C27 witness, decimal: 3 / 2 returned the float 1.5.
C27_WitnessFloat ==
    /\ NumericCalled("divide_numbers")
    /\ tool_in.arguments.a = PyInt(3)
    /\ tool_in.arguments.b = PyInt(2)
    /\ tool_out.outcome = Returned(PyFloat(15))

\* The number each numeric text of NumberTexts denotes in Python; the
\* other texts denote none.
NumberOfText ==
    [text \in NumberTexts |->
        CASE text = <<"5">> -> PyInt(5)
          [] text = <<"1", "2">> -> PyInt(12)
          [] text = <<"2", ".", "5">> -> PyFloat(25)
          [] text = <<"1", ".", "3">> -> PyFloat(13)
          [] text = <<"-", "3">> -> PyInt(-3)
          [] text = <<"+", "3">> -> PyInt(3)
          [] text = <<" ", "5", " ">> -> PyInt(5)
          [] text = <<".", "5">> -> PyFloat(5)
          [] text = <<"5", ".">> -> PyFloat(50)
          [] text = <<"0">> -> PyInt(0)
          [] text = <<"0", ".", "0">> -> PyFloat(0)
          [] text = <<"-", "0">> -> PyInt(0)
          [] OTHER -> PyNone]

\* The argument is a str that denotes no number, or None.
IsNonNumeric(x) ==
    \/ x = PyNone
    \/ x.type = "str" /\ NumberOfText[x.text] = PyNone

\* The number in place of the str that denotes it.
AsNumber(x) == IF x.type = "str" THEN NumberOfText[x.text] ELSE x

\* C28: numeric tools normalize their arguments: with a non-numeric
\* argument (a str that denotes no number, the empty str, None) in either
\* position the call raises ValueError with an 'Invalid number format'
\* message and returns no value; otherwise the outcome is the outcome of
\* the call with every numeric str replaced by the number it denotes.
C28_ArgumentsNormalized ==
    \A name \in NumericTools :
        NumericCalled(name)
        => LET a == tool_in.arguments.a
               b == tool_in.arguments.b
           IN  IF IsNonNumeric(a) \/ IsNonNumeric(b)
               THEN /\ tool_out.outcome.raised
                    /\ tool_out.outcome.exc = "ValueError"
                    /\ tool_out.outcome.msg.fmt = "Invalid number format: {e}"
               ELSE tool_out.outcome =
                        Invoke(name, [a |-> AsNumber(a), b |-> AsNumber(b)])

\* C28 witness: "2.5" times the int 2 returned the int 5, as 2.5 times 2.
C28_Witness ==
    /\ NumericCalled("multiply_numbers")
    /\ tool_in.arguments.a = PyStr(<<"2", ".", "5">>)
    /\ tool_in.arguments.b = PyInt(2)
    /\ tool_out.outcome = Returned(PyInt(5))
    /\ tool_out.outcome = Invoke("multiply_numbers",
                                 [a |-> PyFloat(25), b |-> PyInt(2)])

\* C28 witness, non-numeric: 5 minus None raised the ValueError.
C28_WitnessInvalid ==
    /\ NumericCalled("subtract_numbers")
    /\ tool_in.arguments.a = PyInt(3)
    /\ tool_in.arguments.b = PyNone
    /\ tool_out.outcome.raised
    /\ tool_out.outcome.exc = "ValueError"

\* ----------------------------------------------- claims on count_letters
\* count_letters was called with a text and a letter.
CountCalled ==
    /\ tool_out # NoTool
    /\ tool_in.name = "count_letters"

\* The two characters are the same letter, whatever their case.
SameLetter(x, y) ==
    LET Fold(ch) == IF ch = "R" THEN "r"
                    ELSE IF ch \in {"SIGMA", "final_sigma"} THEN "sigma"
                    ELSE ch
    IN  Fold(x) = Fold(y)

\* The positions of the text that hold the letter, in either case.
Occurrences(text, letter) ==
    {i \in 1..Len(text) : SameLetter(text[i], letter)}

\* C29: count_letters returns the fixed error text whenever the letter
\* does not have length exactly 1; otherwise it reports the number of
\* case-insensitive occurrences of the letter in the text, embedding the
\* letter and the text as they were given.
C29_CountLetters ==
    CountCalled
    => LET text == tool_in.arguments.text.text
           letter == tool_in.arguments.letter.text
           returned == tool_out.outcome
       IN  /\ ~returned.raised
           /\ IF Len(letter) # 1
              THEN returned.value.fmt =
                       "Error: Please provide exactly one letter to count"
              ELSE /\ returned.value.letter = letter
                   /\ returned.value.text = text
                   /\ returned.value.count =
                          Cardinality(Occurrences(text, letter[1]))

\* A text that ends in a capital sigma after a letter was searched for the
\* capital sigma, and the count reported is 0.
C29_FinalSigmaNotCounted ==
    /\ CountCalled
    /\ tool_in.arguments.text.text = <<"R", "SIGMA">>
    /\ tool_in.arguments.letter.text = <<"SIGMA">>
    /\ tool_out.outcome.value.count = 0

\* C29 on texts without a sigma: the error text and the count are as
\* stated.
C29_WithoutSigma ==
    (/\ CountCalled
     /\ \A i \in 1..Len(tool_in.arguments.text.text) :
            tool_in.arguments.text.text[i] \in {"r", "R", " "}
     /\ \A i \in 1..Len(tool_in.arguments.letter.text) :
            tool_in.arguments.letter.text[i] \in {"r", "R", " "})
    => LET text == tool_in.arguments.text.text
           letter == tool_in.arguments.letter.text
           returned == tool_out.outcome
       IN  /\ ~returned.raised
           /\ IF Len(letter) # 1
              THEN returned.value.fmt =
                       "Error: Please provide exactly one letter to count"
              ELSE /\ returned.value.letter = letter
                   /\ returned.value.text = text
                   /\ returned.value.count =
                          Cardinality(Occurrences(text, letter[1]))

\* --------------------------------------------------- claims on get_metar
\* get_metar was called.
MetarCalled ==
    /\ tool_out # NoTool
    /\ tool_in.name = "get_metar"

\* The code as get_metar normalizes it.
NormalizedCode == strip(upper(tool_in.arguments.icao_code.text))

\* The k-th exchange yielded data: fetch_metar_data returned a value that
\* is not empty.
YieldedData(k) ==
    tool_in.exchanges[k] \in {"list_of_record", "list_of_text", "text"}

\* The texts get_metar returns when it has no data to show.
NoDataTexts ==
    {"No METAR data found for airport code: {icao_code}",
     "Error fetching METAR data: {e}"}

\* fetch_metar_data returned for the first exchange, and what it returned
\* is no data: the request failed, or the payload was empty, an object or
\* a list that starts with an empty record.
FirstReturnedNoData ==
    tool_in.exchanges[1] \in
        {"request_exception", "invalid_json_request_exception", "empty_list",
         "null", "object", "empty_object", "list_of_empty_record"}

\* C30, as amended: get_metar makes one or two fetches, the first with the
\* normalized code; the second, with a K before the code, happens exactly
\* when fetch_metar_data returned no data for the first and the code has 3
\* characters; when no fetch that was made yields data the result is one
\* of the two descriptive texts; and get_metar never raises.
C30_AtMostTwoFetches ==
    MetarCalled
    => LET fetched == tool_out.outcome.fetched
       IN  /\ Len(fetched) \in {1, 2}
           /\ fetched[1] = NormalizedCode
           /\ Len(fetched) = 2
              <=> (FirstReturnedNoData /\ Len(NormalizedCode) = 3)
           /\ Len(fetched) = 2 => fetched[2] = <<"K">> \o NormalizedCode
           /\ (\A k \in 1..Len(fetched) : ~YieldedData(k))
              => tool_out.outcome.value.fmt \in NoDataTexts
           /\ ~tool_out.outcome.raised

\* C30 witness: "gtu" was fetched as GTU, which gave an empty list, and
\* then as KGTU, which gave data.
C30_Witness ==
    /\ MetarCalled
    /\ tool_in.arguments.icao_code.text = <<"g", "t", "u">>
    /\ tool_in.exchanges[1] = "empty_list"
    /\ tool_in.exchanges[2] = "list_of_record"
    /\ tool_out.outcome.fetched = <<<<"G", "T", "U">>, <<"K", "G", "T", "U">>>>
    /\ tool_out.outcome.value.fmt = "Airport: {airport_name}..."

\* C30 as stated: the second fetch happens exactly when the first fetch
\* yielded no data, whatever the reason, and the code has 3 characters.
C30_AsStated ==
    MetarCalled
    => LET fetched == tool_out.outcome.fetched
       IN  /\ Len(fetched) \in {1, 2}
           /\ fetched[1] = NormalizedCode
           /\ Len(fetched) = 2
              <=> (~YieldedData(1) /\ Len(NormalizedCode) = 3)
           /\ (\A k \in 1..Len(fetched) : ~YieldedData(k))
              => tool_out.outcome.value.fmt \in NoDataTexts
           /\ ~tool_out.outcome.raised

\* --------------------------------------------------- claims on websearch
\* websearch was called.
WebsearchCalled ==
    /\ tool_out # NoTool
    /\ tool_in.name = "websearch"

\* The entries the endpoint returned (none when the request failed).
EndpointResults ==
    IF tool_in.exchange.kind = "json" THEN tool_in.exchange.results ELSE <<>>

\* The returned text lists a prefix of the endpoint's results, an empty
\* result set gives the no-results text, a failed request the error text,
\* and no exception leaves websearch.
SearchOrderAndTexts ==
    LET items == tool_out.outcome.value.items
    IN  /\ ~tool_out.outcome.raised
        /\ items = SubSeq(EndpointResults, 1, Len(items))
        /\ (tool_in.exchange.kind = "json" /\ EndpointResults = <<>>)
           => tool_out.outcome.value.fmt
                  = "No search results found for query: {query}"
        /\ tool_in.exchange.kind = "request_exception"
           => tool_out.outcome.value.fmt
                  = "Error performing web search: {e!s}"

\* C31: websearch returns at most limit results, in the order the endpoint
\* returned them; an empty result set yields the no-results message and a
\* transport failure an error text, not an exception.
C31_AtMostLimitResults ==
    WebsearchCalled
    => /\ Len(tool_out.outcome.value.items) <= tool_in.arguments.limit.value
       /\ SearchOrderAndTexts

\* C31 for limits that are not negative.
C31_NonNegativeLimit ==
    (WebsearchCalled /\ tool_in.arguments.limit.value >= 0)
    => /\ Len(tool_out.outcome.value.items) <= tool_in.arguments.limit.value
       /\ SearchOrderAndTexts

\* C31, the rest of the claim for every limit.
C31_OrderAndTexts == WebsearchCalled => SearchOrderAndTexts

\* websearch with limit -1 on three results lists the first two.
C31_NegativeLimit ==
    /\ WebsearchCalled
    /\ tool_in.arguments.limit.value = -1
    /\ tool_in.exchange = SearchReply(<<3, 1, 2>>)
    /\ tool_out.outcome.value.items = <<3, 1>>

\* ------------------------------------------- claims on the committed reply
\* Task t's model query completes without a backend error in this step.
QueryCompletes(t) == pc[t] = "chat" /\ pc'[t] = "reply"

\* The step appends to the history of task t's channel exactly one entry,
\* an assistant entry that carries the response to query t.
AppendsOneAssistantEntry(t) ==
    LET h == HistoryOf(conversation_history, channel_id[t])
        after == HistoryOf(conversation_history', channel_id[t])
    IN  /\ Len(after) = Len(h) + 1
        /\ SubSeq(after, 1, Len(h)) = h
        /\ after[Len(after)].role = "assistant"
        /\ after[Len(after)].content.q = t
        /\ after[Len(after)].content.fmt
               \in {"I said: {content}", "Assistant: {response_text}"}

\* C32: every query that completes without a backend error appends exactly
\* one assistant entry with the final response text to its channel's
\* history, after the user's entry, with tools used or not, the first
\* exchange of a channel with an empty tool-calling message included.
C32_OneAssistantEntryPerQuery ==
    [][\A t \in Tasks : QueryCompletes(t) => AppendsOneAssistantEntry(t)]_vars

\* C32 for the queries that called no tool.
C32_WithoutToolCalls ==
    [][\A t \in Tasks :
          (QueryCompletes(t) /\ Len(calls'[t]) = 1)
          => AppendsOneAssistantEntry(t)]_vars

\* A query whose tool round completed waits to reply and its channel's
\* history holds the user's entry alone.
C32_NothingAppended ==
    \E t \in Tasks :
        /\ pc[t] = "reply"
        /\ ~failed[t]
        /\ Len(calls[t]) = 3
        /\ LET h == HistoryOf(conversation_history, channel_id[t])
           IN  /\ Len(h) = 1
               /\ IsUserTurn(h, 1, t)

\* ------------------------------------- claims on the completion calls
\* The model a query's calls are to name: the token of its (first) marker,
\* the configured default when it has none.
ModelFor(q) ==
    IF CountMarkers(q, 1) = 0 THEN DefaultModel ELSE re_search(q).group1

\* C33: every completion call issued for one query, the first and the
\* follow-up alike, names the same model, the override token when the
\* query has a marker and the default otherwise, and carries the
\* configured context length as num_ctx.
C33_SameModelAndContextLength ==
    \A t \in Tasks :
        \A i \in ChatEvents(calls[t]) :
            /\ calls[t][i].model = ModelFor(task_query[t])
            /\ calls[t][i].options = [num_ctx |-> context_length]

\* C33 witness: a query with a marker led to a tool round; its first and
\* its follow-up call both went to the marker's model with the context
\* length.
C33_Witness ==
    \E t \in Tasks :
        /\ pc[t] = "reply"
        /\ CountMarkers(task_query[t], 1) = 1
        /\ Len(calls[t]) = 3
        /\ ChatEvents(calls[t]) = {1, 3}
        /\ calls[t][1].model = OverrideModel
        /\ calls[t][3].model = OverrideModel
        /\ calls[t][3].options.num_ctx = context_length

\* --------------------------------------------- claims on the reply length
\* The k-th text task t passed to message.reply has between 1 and
\* discord_msg_limit characters.
WithinLimit(t, k) ==
    /\ SliceLen(replied[t][k]) >= 1
    /\ SliceLen(replied[t][k]) <= discord_msg_limit

\* C34: every text handle_llm_query passes to message.reply, on the
\* success path and on the error path, has between 1 and 2000 characters.
C34_EveryReplyWithinLimit ==
    \A t \in Tasks : \A k \in 1..Len(replied[t]) : WithinLimit(t, k)

\* C34 on the success path: the reply and each of its chunks.
C34_SuccessPath ==
    \A t \in Tasks :
        \A k \in 1..Len(replied[t]) :
            ~IsErrorReply(replied[t][k]) => WithinLimit(t, k)

\* The error reply of a query was sent with 2001 characters.
C34_LongErrorReply ==
    \E t \in Tasks :
        /\ pc[t] = "done"
        /\ Len(replied[t]) = 1
        /\ IsErrorReply(replied[t][1])
        /\ SliceLen(replied[t][1]) = discord_msg_limit + 1

\* ------------------------------------ claims on what the history holds
\* The formats of the entries the handler stores.
StoredFormats ==
    {"{user_name}: {content}", "I said: {content}",
     "Assistant: {response_text}"}

\* C35: in every reachable state each channel's history holds only user
\* and assistant entries built by the handler: no tool-calling message of
\* the backend, no role=tool message and no system entry is stored.
C35_OnlyUserAndAssistantEntries ==
    \A c \in DOMAIN conversation_history :
        \A i \in 1..Len(conversation_history[c]) :
            LET entry == conversation_history[c][i]
            IN  /\ entry.role \in {"user", "assistant"}
                /\ DOMAIN entry = {"role", "content"}
                /\ entry.content.fmt \in StoredFormats

\* C35 witness: a query went through a tool round, whose working copy held
\* a tool-calling message and a tool result, and its channel's history
\* ends with the assistant entry of the reply.
C35_Witness ==
    \E t \in Tasks :
        /\ pc[t] = "reply"
        /\ Len(calls[t]) = 3
        /\ calls[t][2].ev = "call_tool"
        /\ LET h == HistoryOf(conversation_history, channel_id[t])
           IN  /\ Len(h) >= 2
               /\ h[Len(h)].role = "assistant"
               /\ h[Len(h)].content.fmt = "Assistant: {response_text}"
               /\ h[Len(h)].content.q = t

\* ------------------------------------ claims on the returned conversation
\* The first completion requested at least one tool call.
FirstRequestedTools ==
    /\ chat_in.first.kind = "msg"
    /\ chat_in.first.message.tool_calls # <<>>

\* C36: chat_with_tools leaves the message list it is given as it was,
\* and when it returns, the conversation it returns is longer than that
\* list if and only if the first completion requested a tool call.
C36_InputListUntouched ==
    chat_out # NoChat
    => /\ chat_out.messages = chat_in.messages
       /\ ~chat_out.raised
          => (Len(chat_out.conversation) > Len(chat_in.messages)
              <=> FirstRequestedTools)

\* C36 witness: the first completion requested two tools; the returned
\* conversation holds the given list, the tool-calling message and two
\* tool results, and the given list is as it was.
C36_Witness ==
    /\ chat_out # NoChat
    /\ ~chat_out.raised
    /\ Len(chat_in.first.message.tool_calls) = 2
    /\ Len(chat_out.conversation) = Len(chat_in.messages) + 3
    /\ chat_out.conversation[Len(chat_in.messages) + 2].role = "tool"
    /\ chat_out.messages = chat_in.messages

\* C36 witness: the first completion requested no tool and the list that
\* was given is returned.
C36_WitnessNoTools ==
    /\ chat_out # NoChat
    /\ ~chat_out.raised
    /\ chat_in.first.kind = "msg"
    /\ chat_in.first.message.tool_calls = <<>>
    /\ chat_out.conversation = chat_in.messages
\* ----------------------------------------------- claims on trimming twice
\* C37: applying _trim_history_if_needed twice in a row leaves the same
\* histories as applying it once, and on a channel without a context it
\* changes nothing and creates none.
C37_TrimIdempotent ==
    trim_out # NoTrim
    => /\ trim_out.twice = trim_out.once
       /\ trim_in.channel \notin DOMAIN trim_in.history
          => /\ trim_out.once = trim_in.history
             /\ trim_in.channel \notin DOMAIN trim_out.once

\* C37 witness: the first trim removed two or more entries of a history
\* and left more than one, and the second removed nothing.
C37_Witness ==
    /\ trim_out # NoTrim
    /\ trim_in.channel = 1
    /\ Len(trim_out.once[1]) + 2 <= Len(trim_in.history[1])
    /\ Len(trim_out.once[1]) > 1
    /\ trim_out.twice = trim_out.once

\* C37 witness: trim was called for a channel without a context.
C37_WitnessNoContext ==
    /\ trim_out # NoTrim
    /\ trim_in.channel = 2
    /\ DOMAIN trim_out.once = {1}
    /\ trim_out.once = trim_in.history

\* --------------------------------------------- claims on LlmbotMCPClient
\* self.tools holds no tool declaration twice.
NoToolTwice ==
    \A i, j \in 1..Len(mcp_client.tools) :
        i # j => mcp_client.tools[i] # mcp_client.tools[j]

\* After a disconnect the session and the transport context are None.
ClearedAfterDisconnect ==
    (mcp_ops # <<>> /\ mcp_ops[Len(mcp_ops)].op = "disconnect")
    => /\ mcp_client.session = "None"
       /\ mcp_client._mcp_context = "None"

\* C38: after any sequence of connect and disconnect the client's tool
\* list holds each tool the server declares at most once, and after
\* disconnect the session and the transport context are cleared, also
\* when closing the transport raised.
C38_ToolsOnceAndCleared == NoToolTwice /\ ClearedAfterDisconnect

\* C38, the part on disconnect.
C38_DisconnectClears == ClearedAfterDisconnect

\* The client connected, disconnected and connected again, and its tool
\* list declares add_numbers twice.
C38_DuplicatedAfterReconnect ==
    /\ Len(mcp_ops) = 3
    /\ mcp_ops[1].op = "connect" /\ ~mcp_ops[1].raised
    /\ mcp_ops[2].op = "disconnect"
    /\ mcp_ops[3].op = "connect" /\ ~mcp_ops[3].raised
    /\ mcp_client.tools
           = <<OllamaTool("add_numbers"), OllamaTool("add_numbers")>>

\* A disconnect whose closing of the transport raised left the session
\* and the context cleared.
C38_ClosedWithError ==
    /\ mcp_ops # <<>>
    /\ mcp_ops[Len(mcp_ops)].op = "disconnect"
    /\ mcp_ops[Len(mcp_ops)].close_raised
    /\ mcp_client.session = "None"
    /\ mcp_client._mcp_context = "None"

====
